---- MODULE Spec2Model ----
(***************************************************************************)
(* pgbranch: the schema comparison and migration engine, and the Brancher. *)
(*                                                                         *)
(* The schema model (Schema, Table, Column, Index, Constraint, Enum,       *)
(* Function), the differ (Diff), the orderer (OrderChanges), the SQL       *)
(* generator (Generate, GenerateChange), the applier (Apply,               *)
(* ApplyWithContinue, DryRun), the validator (ValidateChanges), the merge  *)
(* command, and the Brancher (CreateBranch, Checkout, UpdateBranch,        *)
(* DeleteBranch, PruneBranches) with its Metadata and the snapshot         *)
(* databases of the PostgreSQL server.                                     *)
(*                                                                         *)
(* Go maps are functions with a finite domain of keys.  A nil pointer      *)
(* of a string or an int is the empty sequence << >>, a pointer to v <<v>>.*)
(* A `for k := range m` loop visits the keys of m in an order the Go       *)
(* runtime chooses: such a loop has one outcome per order, and an operator *)
(* that contains one yields the SET of change sequences it can append.     *)
(***************************************************************************)
EXTENDS Integers, Sequences, FiniteSets, TLC

VARIABLES
    from,       \* Diff's first argument, the source Schema
    to,         \* Diff's second argument, the target Schema
    cs,         \* a ChangeSet's Changes: what Diff returned, OrderChanges' / Apply's input
    csIn,       \* the Changes of the ChangeSet as they were when it was handed over
    ordered,    \* the Changes of the ChangeSet OrderChanges returned
    pc,         \* the position in the pipeline, or in Apply / ApplyWithContinue
    mode,       \* the Applier method called: "Apply", "ApplyWithContinue" or "DryRun"
    at,         \* the index in cs.Changes of the change the loop handles next
    Applied,    \* result.Applied
    Failed,     \* result.Failed: records {Change, SQL, Error}
    result,     \* what the method returned as its *ApplyResult: "nil" or "ApplyResult"
    err,        \* the error the method returned; "" is nil
    tx,         \* the transaction on the connection: "none", "open", "committed",
                \* "rolledback", or "aborted" (the connection was closed with it open)
    pending,    \* the statements executed inside the open transaction
    database,   \* the statements whose effect the target database holds for good
    execLog,    \* every statement handed to Exec, in order
    ctx,        \* the caller's context: "live" or "cancelled"
    calls,      \* every call made on the connection or its transaction, in order
    statements, \* the []string DryRun returned
    warnings,   \* ValidateChanges' first result
    errs,       \* ValidateChanges' second result
    destructive,        \* IsDestructive() of each change, as the listing marks it
    hasDestructive,     \* what HasDestructive() returned
    destructiveCount,   \* what DestructiveCount() returned
    dryRun,     \* the merge command's --dry-run flag
    migrationFile,      \* the merge command's --migration-file flag
    force,      \* the merge command's --force flag
    answer,     \* the line confirmPrompt read from standard input; "none": not asked
    file,       \* the content of the migration file written; "" when none was
    Metadata,   \* Brancher.Metadata: CurrentBranch and Branches, as the process holds them
    metadataFile,       \* the content of metadata.json
    databases,  \* the databases of the PostgreSQL server: name -> state of its data
    op,         \* the last call on the Brancher, with what it returned and what it found
    prev        \* the call before it, when that was a Checkout that returned nil

diffVars  == <<from, to, cs, csIn, ordered>>
applyVars == <<mode, at, Applied, Failed, result, err, tx, pending, database, execLog, ctx,
               calls, statements>>
validateVars == <<warnings, errs, destructive, hasDestructive, destructiveCount>>
mergeVars == <<dryRun, migrationFile, force, answer, file>>
brancherVars == <<Metadata, metadataFile, databases, op, prev>>
vars == <<from, to, cs, csIn, ordered, pc, mode, at, Applied, Failed, result, err, tx,
          pending, database, execLog, ctx, calls, statements, warnings, errs, destructive,
          hasDestructive, destructiveCount, dryRun, migrationFile, force, answer, file,
          Metadata, metadataFile, databases, op, prev>>

Nil == << >>
Ptr(v) == <<v>>

-----------------------------------------------------------------------------
(* Generic helpers                                                         *)

\* All orders in which a range loop can visit the keys S of a map.
Perms(S) ==
    {p \in [1..Cardinality(S) -> S] : \A i, j \in 1..Cardinality(S) : i # j => p[i] # p[j]}

CatSets(A, B) == {a \o b : a \in A, b \in B}

RECURSIVE CatAlong(_, _)
CatAlong(order, out) ==
    IF order = << >> THEN {<< >>}
    ELSE CatSets(out[Head(order)], CatAlong(Tail(order), out))

\* for k := range m { body(k) }: out[k] is the set of sequences body(k) can append.
RangeLoop(out) == UNION {CatAlong(p, out) : p \in Perms(DOMAIN out)}

\* strings.HasPrefix
HasPrefix(s, prefix) == Len(s) >= Len(prefix) /\ SubSeq(s, 1, Len(prefix)) = prefix

\* strings.HasSuffix
HasSuffix(s, suffix) ==
    Len(s) >= Len(suffix) /\ SubSeq(s, Len(s) - Len(suffix) + 1, Len(s)) = suffix

\* The maps whose keys are some of DOMAIN V, key k holding a value of V[k].
PartialMaps(V) ==
    UNION { {f \in [D -> UNION {V[k] : k \in D}] : \A k \in D : f[k] \in V[k]}
            : D \in SUBSET (DOMAIN V) }

RECURSIVE SelectSeq2(_, _)
SelectSeq2(s, keep) ==
    IF s = << >> THEN << >>
    ELSE IF Head(s) \in keep THEN <<Head(s)>> \o SelectSeq2(Tail(s), keep)
         ELSE SelectSeq2(Tail(s), keep)

SeqRange(s) == {s[i] : i \in DOMAIN s}

\* How many positions of sequence s hold an element of S.
Occurrences(s, S) == Cardinality({k \in DOMAIN s : s[k] \in S})

-----------------------------------------------------------------------------
(* Schema model                                                            *)

\* Table.FullName
TableFullName(t) ==
    IF t.Schema = "" \/ t.Schema = "public" THEN t.Name
    ELSE t.Schema \o "." \o t.Name

\* Enum.FullName
EnumFullName(e) ==
    IF e.Schema = "" \/ e.Schema = "public" THEN e.Name
    ELSE e.Schema \o "." \o e.Name

\* Column.FullType
FullType(c) ==
    LET t0 == c.DataType
        t1 == IF c.CharMaxLength # Nil
              THEN IF HasPrefix(t0, "character varying")
                   THEN "varchar(" \o ToString(c.CharMaxLength[1]) \o ")"
                   ELSE IF t0 = "character"
                        THEN "char(" \o ToString(c.CharMaxLength[1]) \o ")"
                        ELSE t0
              ELSE t0
        t2 == IF c.NumericPrecision # Nil
              THEN IF c.NumericScale # Nil /\ c.NumericScale[1] > 0
                   THEN "numeric(" \o ToString(c.NumericPrecision[1]) \o ","
                            \o ToString(c.NumericScale[1]) \o ")"
                   ELSE IF t1 = "numeric"
                        THEN "numeric(" \o ToString(c.NumericPrecision[1]) \o ")"
                        ELSE t1
              ELSE t1
    IN  IF c.IsArray THEN t2 \o "[]" ELSE t2

\* Column.Equals with the both-nil test on the defaults lost: two absent defaults
\* fall through to the nil-versus-value test.
ColumnEquals_NilFallsThrough(c, other) ==
    IF c.Name # other.Name THEN FALSE
    ELSE IF FullType(c) # FullType(other) THEN FALSE
    ELSE IF c.IsNullable # other.IsNullable THEN FALSE
    ELSE IF c.DefaultValue = Nil \/ other.DefaultValue = Nil THEN FALSE
    ELSE c.DefaultValue[1] = other.DefaultValue[1]

\* Column.Equals
ColumnEquals(c, other) ==
    IF c.Name # other.Name THEN FALSE
    ELSE IF FullType(c) # FullType(other) THEN FALSE
    ELSE IF c.IsNullable # other.IsNullable THEN FALSE
    ELSE IF c.DefaultValue = Nil /\ other.DefaultValue = Nil THEN TRUE
    ELSE IF c.DefaultValue = Nil \/ other.DefaultValue = Nil THEN FALSE
    ELSE c.DefaultValue[1] = other.DefaultValue[1]

\* Index.Equals
IndexEquals(i, other) ==
    IF i.Name # other.Name THEN FALSE
    ELSE IF i.IsUnique # other.IsUnique THEN FALSE
    ELSE IF i.IsPrimary # other.IsPrimary THEN FALSE
    ELSE IF i.Type # other.Type THEN FALSE
    ELSE IF Len(i.Columns) # Len(other.Columns) THEN FALSE
    ELSE \A k \in 1..Len(i.Columns) : i.Columns[k] = other.Columns[k]

\* Constraint.Equals
ConstraintEquals(c, other) ==
    IF c.Name # other.Name THEN FALSE
    ELSE IF c.Type # other.Type THEN FALSE
    ELSE c.Definition = other.Definition

\* Function.Signature
Signature(f) == f.Name \o "(" \o f.Arguments \o ")"

\* Function.FullName
FunctionFullName(f) ==
    IF f.Schema = "" \/ f.Schema = "public" THEN Signature(f)
    ELSE f.Schema \o "." \o Signature(f)

\* Function.Equals
FunctionEquals(f, other) ==
    IF Signature(f) # Signature(other) THEN FALSE
    ELSE IF f.ReturnType # other.ReturnType THEN FALSE
    ELSE f.BodyHash = other.BodyHash

-----------------------------------------------------------------------------
(* Changes (changeset.go)                                                  *)

CreateTableChange(t)  == [kind |-> "CreateTableChange", Table |-> t]
DropTableChange(t)    == [kind |-> "DropTableChange", Table |-> t]
AddColumnChange(tableName, c) ==
    [kind |-> "AddColumnChange", TableName |-> tableName, Column |-> c]
DropColumnChange(tableName, c) ==
    [kind |-> "DropColumnChange", TableName |-> tableName, Column |-> c]
AlterColumnChange(tableName, name, old, new, alt) ==
    [kind |-> "AlterColumnChange", TableName |-> tableName, ColumnName |-> name,
     OldColumn |-> old, NewColumn |-> new, Alteration |-> alt]
CreateIndexChange(i)  == [kind |-> "CreateIndexChange", Index |-> i]
DropIndexChange(i)    == [kind |-> "DropIndexChange", Index |-> i]
AddConstraintChange(tableName, c) ==
    [kind |-> "AddConstraintChange", TableName |-> tableName, Constraint |-> c]
DropConstraintChange(tableName, c) ==
    [kind |-> "DropConstraintChange", TableName |-> tableName, Constraint |-> c]
CreateEnumChange(e)   == [kind |-> "CreateEnumChange", Enum |-> e]
DropEnumChange(e)     == [kind |-> "DropEnumChange", Enum |-> e]
AddEnumValueChange(enumName, value, after) ==
    [kind |-> "AddEnumValueChange", EnumName |-> enumName, Value |-> value, After |-> after]
CreateFunctionChange(f)  == [kind |-> "CreateFunctionChange", Function |-> f]
DropFunctionChange(f)    == [kind |-> "DropFunctionChange", Function |-> f]
ReplaceFunctionChange(old, new) ==
    [kind |-> "ReplaceFunctionChange", OldFunction |-> old, NewFunction |-> new]

\* Change.Type
ChangeType(c) ==
    CASE c.kind = "CreateTableChange"     -> "CREATE_TABLE"
      [] c.kind = "DropTableChange"       -> "DROP_TABLE"
      [] c.kind = "AddColumnChange"       -> "ADD_COLUMN"
      [] c.kind = "DropColumnChange"      -> "DROP_COLUMN"
      [] c.kind = "AlterColumnChange"     -> "ALTER_COLUMN"
      [] c.kind = "CreateIndexChange"     -> "CREATE_INDEX"
      [] c.kind = "DropIndexChange"       -> "DROP_INDEX"
      [] c.kind = "AddConstraintChange"   -> "ADD_CONSTRAINT"
      [] c.kind = "DropConstraintChange"  -> "DROP_CONSTRAINT"
      [] c.kind = "CreateEnumChange"      -> "CREATE_ENUM"
      [] c.kind = "DropEnumChange"        -> "DROP_ENUM"
      [] c.kind = "AddEnumValueChange"    -> "ADD_ENUM_VALUE"
      [] c.kind = "CreateFunctionChange"  -> "CREATE_FUNCTION"
      [] c.kind = "DropFunctionChange"    -> "DROP_FUNCTION"
      [] c.kind = "ReplaceFunctionChange" -> "REPLACE_FUNCTION"

\* Change.IsDestructive with DropConstraintChange's answer TRUE for every constraint kind.
IsDestructive_EveryDropConstraint(c) ==
    CASE c.kind = "DropTableChange"      -> TRUE
      [] c.kind = "DropColumnChange"     -> TRUE
      [] c.kind = "DropEnumChange"       -> TRUE
      [] c.kind = "AlterColumnChange"    ->
            c.Alteration.TypeChanged
                \/ (c.Alteration.NullableChanged /\ ~c.Alteration.NewNullable)
      [] c.kind = "DropConstraintChange" -> TRUE
      [] OTHER                           -> FALSE

\* Change.IsDestructive
IsDestructive(c) ==
    CASE c.kind = "DropTableChange"      -> TRUE
      [] c.kind = "DropColumnChange"     -> TRUE
      [] c.kind = "DropEnumChange"       -> TRUE
      [] c.kind = "AlterColumnChange"    ->
            IF c.Alteration.TypeChanged THEN TRUE
            ELSE IF c.Alteration.NullableChanged /\ ~c.Alteration.NewNullable THEN TRUE
            ELSE FALSE
      [] c.kind = "DropConstraintChange" -> c.Constraint.Type = "FOREIGN KEY"
      [] OTHER                           -> FALSE

\* The zero value of ColumnAlteration
NoAlteration ==
    [TypeChanged |-> FALSE, OldType |-> "", NewType |-> "",
     NullableChanged |-> FALSE, OldNullable |-> FALSE, NewNullable |-> FALSE,
     DefaultChanged |-> FALSE, OldDefault |-> Nil, NewDefault |-> Nil]

\* Change.ObjectName
ObjectName(c) ==
    CASE c.kind = "CreateTableChange"     -> TableFullName(c.Table)
      [] c.kind = "DropTableChange"       -> TableFullName(c.Table)
      [] c.kind = "AddColumnChange"       -> c.TableName \o "." \o c.Column.Name
      [] c.kind = "DropColumnChange"      -> c.TableName \o "." \o c.Column.Name
      [] c.kind = "AlterColumnChange"     -> c.TableName \o "." \o c.ColumnName
      [] c.kind = "CreateIndexChange"     -> c.Index.Name
      [] c.kind = "DropIndexChange"       -> c.Index.Name
      [] c.kind = "AddConstraintChange"   -> c.Constraint.Name
      [] c.kind = "DropConstraintChange"  -> c.Constraint.Name
      [] c.kind = "CreateEnumChange"      -> EnumFullName(c.Enum)
      [] c.kind = "DropEnumChange"        -> EnumFullName(c.Enum)
      [] c.kind = "AddEnumValueChange"    -> c.EnumName
      [] c.kind = "CreateFunctionChange"  -> FunctionFullName(c.Function)
      [] c.kind = "DropFunctionChange"    -> FunctionFullName(c.Function)
      [] c.kind = "ReplaceFunctionChange" -> FunctionFullName(c.NewFunction)

RECURSIVE joinParts(_)
joinParts(parts) ==
    IF Len(parts) = 0 THEN ""
    ELSE IF Len(parts) = 1 THEN parts[1]
    ELSE joinParts(SubSeq(parts, 1, Len(parts) - 1)) \o ", " \o parts[Len(parts)]

\* AlterColumnChange.Description
DescribeAlterColumn(c) ==
    LET alt == c.Alteration
        p1 == IF alt.TypeChanged
              THEN <<"type " \o alt.OldType \o " → " \o alt.NewType>> ELSE << >>
        p2 == IF alt.NullableChanged
              THEN IF alt.NewNullable THEN <<"set nullable">> ELSE <<"set not null">>
              ELSE << >>
        p3 == IF alt.DefaultChanged
              THEN IF alt.NewDefault = Nil THEN <<"drop default">>
                   ELSE <<"set default " \o alt.NewDefault[1]>>
              ELSE << >>
    IN  "Alter column " \o c.TableName \o "." \o c.ColumnName \o ": "
            \o joinParts(p1 \o p2 \o p3)

\* Change.Description
Description(c) ==
    CASE c.kind = "CreateTableChange"     -> "Create table " \o TableFullName(c.Table)
      [] c.kind = "DropTableChange"       -> "Drop table " \o TableFullName(c.Table)
      [] c.kind = "AddColumnChange"       ->
            "Add column " \o c.TableName \o "." \o c.Column.Name
                \o " (" \o FullType(c.Column) \o ")"
      [] c.kind = "DropColumnChange"      ->
            "Drop column " \o c.TableName \o "." \o c.Column.Name
      [] c.kind = "AlterColumnChange"     -> DescribeAlterColumn(c)
      [] c.kind = "CreateIndexChange"     ->
            "Create " \o (IF c.Index.IsUnique THEN "unique " ELSE "") \o "index "
                \o c.Index.Name \o " on " \o c.Index.TableName
      [] c.kind = "DropIndexChange"       -> "Drop index " \o c.Index.Name
      [] c.kind = "AddConstraintChange"   ->
            "Add " \o c.Constraint.Type \o " constraint " \o c.Constraint.Name
                \o " on " \o c.TableName
      [] c.kind = "DropConstraintChange"  ->
            "Drop " \o c.Constraint.Type \o " constraint " \o c.Constraint.Name
                \o " from " \o c.TableName
      [] c.kind = "CreateEnumChange"      -> "Create enum " \o EnumFullName(c.Enum)
      [] c.kind = "DropEnumChange"        -> "Drop enum " \o EnumFullName(c.Enum)
      [] c.kind = "AddEnumValueChange"    ->
            IF c.After # ""
            THEN "Add value '" \o c.Value \o "' to enum " \o c.EnumName
                     \o " after '" \o c.After \o "'"
            ELSE "Add value '" \o c.Value \o "' to enum " \o c.EnumName
      [] c.kind = "CreateFunctionChange"  -> "Create function " \o Signature(c.Function)
      [] c.kind = "DropFunctionChange"    -> "Drop function " \o Signature(c.Function)
      [] c.kind = "ReplaceFunctionChange" -> "Replace function " \o Signature(c.NewFunction)

\* ChangeSet.HasDestructive
HasDestructive(changes) == \E k \in DOMAIN changes : IsDestructive(changes[k])

\* ChangeSet.DestructiveCount
DestructiveCount(changes) == Cardinality({k \in DOMAIN changes : IsDestructive(changes[k])})

-----------------------------------------------------------------------------
(* Differ (diff.go)                                                        *)

\* diffEnumValues anchoring every added label on the last label of from.
RECURSIVE diffEnumValuesAt_AnchorFrom(_, _, _)
diffEnumValuesAt_AnchorFrom(fromE, toE, i) ==
    IF i > Len(toE.Values) THEN << >>
    ELSE (IF toE.Values[i] \notin SeqRange(fromE.Values)
          THEN <<AddEnumValueChange(toE.Name, toE.Values[i],
                    IF fromE.Values # << >> THEN fromE.Values[Len(fromE.Values)] ELSE "")>>
          ELSE << >>)
         \o diffEnumValuesAt_AnchorFrom(fromE, toE, i + 1)

diffEnumValues_AnchorFrom(fromE, toE) == diffEnumValuesAt_AnchorFrom(fromE, toE, 1)

RECURSIVE diffEnumValuesAt(_, _, _)
diffEnumValuesAt(fromE, toE, i) ==
    IF i > Len(toE.Values) THEN << >>
    ELSE (IF toE.Values[i] \notin SeqRange(fromE.Values)
          THEN <<AddEnumValueChange(toE.Name, toE.Values[i],
                                    IF i > 1 THEN toE.Values[i - 1] ELSE "")>>
          ELSE << >>)
         \o diffEnumValuesAt(fromE, toE, i + 1)

diffEnumValues(fromE, toE) == diffEnumValuesAt(fromE, toE, 1)

diffEnums(f, t) ==
    CatSets(
        RangeLoop([name \in DOMAIN f.Enums |->
            IF name \notin DOMAIN t.Enums
            THEN {<<DropEnumChange(f.Enums[name])>>} ELSE {<< >>}]),
        RangeLoop([name \in DOMAIN t.Enums |->
            IF name \notin DOMAIN f.Enums
            THEN {<<CreateEnumChange(t.Enums[name])>>}
            ELSE {diffEnumValues(f.Enums[name], t.Enums[name])}]))

\* computeColumnAlteration recording only the first attribute that differs.
computeColumnAlteration_FirstOnly(fromCol, toCol) ==
    LET fromType == FullType(fromCol)
        toType   == FullType(toCol)
    IN  IF fromType # toType
        THEN [NoAlteration EXCEPT !.TypeChanged = TRUE, !.OldType = fromType,
                                  !.NewType = toType]
        ELSE IF fromCol.IsNullable # toCol.IsNullable
        THEN [NoAlteration EXCEPT !.NullableChanged = TRUE,
                                  !.OldNullable = fromCol.IsNullable,
                                  !.NewNullable = toCol.IsNullable]
        ELSE IF fromCol.DefaultValue # toCol.DefaultValue
        THEN [NoAlteration EXCEPT !.DefaultChanged = TRUE,
                                  !.OldDefault = fromCol.DefaultValue,
                                  !.NewDefault = toCol.DefaultValue]
        ELSE NoAlteration

computeColumnAlteration(fromCol, toCol) ==
    LET fromType == FullType(fromCol)
        toType   == FullType(toCol)
        a0 == NoAlteration
        a1 == IF fromType # toType
              THEN [a0 EXCEPT !.TypeChanged = TRUE, !.OldType = fromType, !.NewType = toType]
              ELSE a0
        a2 == IF fromCol.IsNullable # toCol.IsNullable
              THEN [a1 EXCEPT !.NullableChanged = TRUE, !.OldNullable = fromCol.IsNullable,
                              !.NewNullable = toCol.IsNullable]
              ELSE a1
        fromDefault == fromCol.DefaultValue
        toDefault   == toCol.DefaultValue
    IN  IF (fromDefault = Nil) # (toDefault = Nil)
        THEN [a2 EXCEPT !.DefaultChanged = TRUE, !.OldDefault = fromDefault,
                        !.NewDefault = toDefault]
        ELSE IF fromDefault # Nil /\ toDefault # Nil /\ fromDefault[1] # toDefault[1]
             THEN [a2 EXCEPT !.DefaultChanged = TRUE, !.OldDefault = fromDefault,
                             !.NewDefault = toDefault]
             ELSE a2

diffColumns(fromT, toT) ==
    LET tableName == TableFullName(toT)
    IN  CatSets(
            RangeLoop([name \in DOMAIN fromT.Columns |->
                IF name \notin DOMAIN toT.Columns
                THEN {<<DropColumnChange(tableName, fromT.Columns[name])>>} ELSE {<< >>}]),
            RangeLoop([name \in DOMAIN toT.Columns |->
                IF name \notin DOMAIN fromT.Columns
                THEN {<<AddColumnChange(tableName, toT.Columns[name])>>}
                ELSE IF ~ColumnEquals(fromT.Columns[name], toT.Columns[name])
                     THEN {<<AlterColumnChange(tableName, name, fromT.Columns[name],
                               toT.Columns[name],
                               computeColumnAlteration(fromT.Columns[name], toT.Columns[name]))>>}
                     ELSE {<< >>}]))

diffIndexes(fromT, toT) ==
    CatSets(
        RangeLoop([name \in DOMAIN fromT.Indexes |->
            IF fromT.Indexes[name].IsPrimary THEN {<< >>}
            ELSE IF name \notin DOMAIN toT.Indexes
                 THEN {<<DropIndexChange(fromT.Indexes[name])>>} ELSE {<< >>}]),
        RangeLoop([name \in DOMAIN toT.Indexes |->
            IF toT.Indexes[name].IsPrimary THEN {<< >>}
            ELSE IF name \notin DOMAIN fromT.Indexes
                 THEN {<<CreateIndexChange(toT.Indexes[name])>>}
                 ELSE IF ~IndexEquals(fromT.Indexes[name], toT.Indexes[name])
                      THEN {<<DropIndexChange(fromT.Indexes[name]),
                              CreateIndexChange(toT.Indexes[name])>>}
                      ELSE {<< >>}]))

diffConstraints(fromT, toT) ==
    LET tableName == TableFullName(toT)
    IN  CatSets(
            RangeLoop([name \in DOMAIN fromT.Constraints |->
                IF name \notin DOMAIN toT.Constraints
                THEN {<<DropConstraintChange(tableName, fromT.Constraints[name])>>}
                ELSE {<< >>}]),
            RangeLoop([name \in DOMAIN toT.Constraints |->
                IF name \notin DOMAIN fromT.Constraints
                THEN {<<AddConstraintChange(tableName, toT.Constraints[name])>>}
                ELSE IF ~ConstraintEquals(fromT.Constraints[name], toT.Constraints[name])
                     THEN {<<DropConstraintChange(tableName, fromT.Constraints[name]),
                             AddConstraintChange(tableName, toT.Constraints[name])>>}
                     ELSE {<< >>}]))

diffTableContents(fromT, toT) ==
    CatSets(diffColumns(fromT, toT),
            CatSets(diffIndexes(fromT, toT), diffConstraints(fromT, toT)))

\* diffTables that, having created a table, goes on to diff its contents against
\* an empty table (the `continue` after CreateTable lost).
diffTables_NoContinue(f, t) ==
    CatSets(
        RangeLoop([name \in DOMAIN f.Tables |->
            IF name \notin DOMAIN t.Tables
            THEN {<<DropTableChange(f.Tables[name])>>} ELSE {<< >>}]),
        RangeLoop([name \in DOMAIN t.Tables |->
            IF name \notin DOMAIN f.Tables
            THEN CatSets({<<CreateTableChange(t.Tables[name])>>},
                         diffTableContents(
                             [t.Tables[name] EXCEPT !.Columns = [k \in {} |-> Nil],
                                                    !.Indexes = [k \in {} |-> Nil],
                                                    !.Constraints = [k \in {} |-> Nil]],
                             t.Tables[name]))
            ELSE diffTableContents(f.Tables[name], t.Tables[name])]))

diffTables(f, t) ==
    CatSets(
        RangeLoop([name \in DOMAIN f.Tables |->
            IF name \notin DOMAIN t.Tables
            THEN {<<DropTableChange(f.Tables[name])>>} ELSE {<< >>}]),
        RangeLoop([name \in DOMAIN t.Tables |->
            IF name \notin DOMAIN f.Tables
            THEN {<<CreateTableChange(t.Tables[name])>>}
            ELSE diffTableContents(f.Tables[name], t.Tables[name])]))

\* diffFunctions dropping and creating a function whose body changed.
diffFunctions_DropCreate(f, t) ==
    CatSets(
        RangeLoop([sig \in DOMAIN f.Functions |->
            IF sig \notin DOMAIN t.Functions
            THEN {<<DropFunctionChange(f.Functions[sig])>>} ELSE {<< >>}]),
        RangeLoop([sig \in DOMAIN t.Functions |->
            IF sig \notin DOMAIN f.Functions
            THEN {<<CreateFunctionChange(t.Functions[sig])>>}
            ELSE IF ~FunctionEquals(f.Functions[sig], t.Functions[sig])
                 THEN {<<DropFunctionChange(f.Functions[sig]),
                         CreateFunctionChange(t.Functions[sig])>>}
                 ELSE {<< >>}]))

diffFunctions(f, t) ==
    CatSets(
        RangeLoop([sig \in DOMAIN f.Functions |->
            IF sig \notin DOMAIN t.Functions
            THEN {<<DropFunctionChange(f.Functions[sig])>>} ELSE {<< >>}]),
        RangeLoop([sig \in DOMAIN t.Functions |->
            IF sig \notin DOMAIN f.Functions
            THEN {<<CreateFunctionChange(t.Functions[sig])>>}
            ELSE IF ~FunctionEquals(f.Functions[sig], t.Functions[sig])
                 THEN {<<ReplaceFunctionChange(f.Functions[sig], t.Functions[sig])>>}
                 ELSE {<< >>}]))

\* The ChangeSets Diff(from, to) can return, one per iteration order of the maps.
Diff(f, t) ==
    CatSets(diffEnums(f, t), CatSets(diffTables(f, t), diffFunctions(f, t)))

-----------------------------------------------------------------------------
(* SQL generator                                                           *)

CharAt(str, k) == SubSeq(str, k, k)

\* The bytes identifiers are made of, in byte order.
ByteOrder == "\"$'(),.0123456789ABCDEFGHIJKLMNOPQRSTUVWXYZ_abcdefghijklmnopqrstuvwxyz"

ByteOf(ch) == CHOOSE k \in 1..Len(ByteOrder) : CharAt(ByteOrder, k) = ch

\* a < b on Go strings
RECURSIVE StringLess(_, _)
StringLess(a, b) ==
    IF b = "" THEN FALSE
    ELSE IF a = "" THEN TRUE
    ELSE IF CharAt(a, 1) # CharAt(b, 1) THEN ByteOf(CharAt(a, 1)) < ByteOf(CharAt(b, 1))
    ELSE StringLess(SubSeq(a, 2, Len(a)), SubSeq(b, 2, Len(b)))

\* strings.ReplaceAll(str, old, new) for a one-byte old
RECURSIVE ReplaceAll(_, _, _)
ReplaceAll(str, old, new) ==
    IF str = "" THEN ""
    ELSE (IF CharAt(str, 1) = old THEN new ELSE CharAt(str, 1))
         \o ReplaceAll(SubSeq(str, 2, Len(str)), old, new)

\* strings.Join
RECURSIVE Join(_, _)
Join(parts, sep) ==
    IF parts = << >> THEN ""
    ELSE IF Len(parts) = 1 THEN parts[1]
    ELSE parts[1] \o sep \o Join(Tail(parts), sep)

LowerLetters == {CharAt("abcdefghijklmnopqrstuvwxyz", k) : k \in 1..26}
Digits == {CharAt("0123456789", k) : k \in 1..10}

ReservedWords ==
    {"select", "from", "where", "table", "index", "user", "order", "group", "by", "as",
     "on", "join"}

\* isSimpleIdent; a name that passes the byte tests is its own lower-case form
isSimpleIdent(name) ==
    IF Len(name) = 0 THEN FALSE
    ELSE IF ~(CharAt(name, 1) \in LowerLetters \/ CharAt(name, 1) = "_") THEN FALSE
    ELSE IF \E k \in 2..Len(name) :
                ~(CharAt(name, k) \in LowerLetters \/ CharAt(name, k) \in Digits
                  \/ CharAt(name, k) = "_")
         THEN FALSE
    ELSE name \notin ReservedWords

quoteIdent(name) ==
    IF isSimpleIdent(name) THEN name
    ELSE "\"" \o ReplaceAll(name, "\"", "\"\"") \o "\""

quoteIdents(names) == [k \in DOMAIN names |-> quoteIdent(names[k])]

quoteLiteral(str) == "'" \o ReplaceAll(str, "'", "''") \o "'"

\* The values of map m, in each order of its keys.
ValuesAlong(m) == {[k \in 1..Cardinality(DOMAIN m) |-> m[p[k]]] : p \in Perms(DOMAIN m)}

\* Table.SortedColumns: sort.Slice by Position; the positions of a table's columns are
\* distinct, so there is one sorted order
SortedColumns(t) ==
    CHOOSE q \in ValuesAlong(t.Columns) :
        \A a, b \in DOMAIN q : a < b => ~(q[b].Position < q[a].Position)

\* Table.SortedConstraints: sort.Slice by Name; the names are the map's keys
SortedConstraints(t) ==
    CHOOSE q \in ValuesAlong(t.Constraints) :
        \A a, b \in DOMAIN q : a < b => ~StringLess(q[b].Name, q[a].Name)

columnDefinition(col) ==
    quoteIdent(col.Name) \o " " \o FullType(col)
        \o (IF ~col.IsNullable THEN " NOT NULL" ELSE "")
        \o (IF col.DefaultValue # Nil THEN " DEFAULT " \o col.DefaultValue[1] ELSE "")

generateAddConstraint(c) ==
    "ALTER TABLE " \o quoteIdent(c.TableName) \o " ADD CONSTRAINT "
        \o quoteIdent(c.Constraint.Name) \o " " \o c.Constraint.Definition \o ";"

generateCreateTable(c) ==
    LET table   == c.Table
        columns == SortedColumns(table)
        body    == "CREATE TABLE " \o quoteIdent(TableFullName(table)) \o " (\n"
                   \o Join([k \in DOMAIN columns |->
                               "    " \o columnDefinition(columns[k])
                               \o (IF k < Len(columns) THEN "," ELSE "") \o "\n"], "")
                   \o ");"
        cons    == SelectSeq(SortedConstraints(table), LAMBDA con : con.Type # "PRIMARY KEY")
        extra   == [k \in DOMAIN cons |->
                       generateAddConstraint(
                           AddConstraintChange(TableFullName(table), cons[k]))]
    IN  IF Len(extra) > 0 THEN body \o "\n" \o Join(extra, "\n") ELSE body

generateDropTable(c) == "DROP TABLE " \o quoteIdent(TableFullName(c.Table)) \o ";"

generateAddColumn(c) ==
    "ALTER TABLE " \o quoteIdent(c.TableName) \o " ADD COLUMN " \o columnDefinition(c.Column)
        \o ";"

generateDropColumn(c) ==
    "ALTER TABLE " \o quoteIdent(c.TableName) \o " DROP COLUMN " \o quoteIdent(c.Column.Name)
        \o ";"

generateAlterColumn(c) ==
    LET head == "ALTER TABLE " \o quoteIdent(c.TableName) \o " ALTER COLUMN "
                \o quoteIdent(c.ColumnName)
        alt  == c.Alteration
        s1 == IF alt.TypeChanged THEN <<head \o " TYPE " \o alt.NewType \o ";">> ELSE << >>
        s2 == IF alt.NullableChanged
              THEN IF alt.NewNullable THEN <<head \o " DROP NOT NULL;">>
                   ELSE <<head \o " SET NOT NULL;">>
              ELSE << >>
        s3 == IF alt.DefaultChanged
              THEN IF alt.NewDefault = Nil THEN <<head \o " DROP DEFAULT;">>
                   ELSE <<head \o " SET DEFAULT " \o alt.NewDefault[1] \o ";">>
              ELSE << >>
    IN  Join(s1 \o s2 \o s3, "\n")

generateCreateIndex(c) ==
    IF c.Index.Definition # "" THEN c.Index.Definition \o ";"
    ELSE "CREATE " \o (IF c.Index.IsUnique THEN "UNIQUE " ELSE "") \o "INDEX "
         \o quoteIdent(c.Index.Name) \o " ON " \o quoteIdent(c.Index.TableName) \o " ("
         \o Join(quoteIdents(c.Index.Columns), ", ") \o ");"

generateDropIndex(c) == "DROP INDEX " \o quoteIdent(c.Index.Name) \o ";"

generateDropConstraint(c) ==
    "ALTER TABLE " \o quoteIdent(c.TableName) \o " DROP CONSTRAINT "
        \o quoteIdent(c.Constraint.Name) \o ";"

generateCreateEnum(c) ==
    "CREATE TYPE " \o quoteIdent(EnumFullName(c.Enum)) \o " AS ENUM ("
        \o Join([k \in DOMAIN c.Enum.Values |-> quoteLiteral(c.Enum.Values[k])], ", ") \o ");"

generateDropEnum(c) == "DROP TYPE " \o quoteIdent(EnumFullName(c.Enum)) \o ";"

generateAddEnumValue(c) ==
    IF c.After # ""
    THEN "ALTER TYPE " \o quoteIdent(c.EnumName) \o " ADD VALUE " \o quoteLiteral(c.Value)
         \o " AFTER " \o quoteLiteral(c.After) \o ";"
    ELSE "ALTER TYPE " \o quoteIdent(c.EnumName) \o " ADD VALUE " \o quoteLiteral(c.Value)
         \o ";"

generateCreateFunction(c) == c.Function.Definition \o ";"

generateDropFunction(c) == "DROP FUNCTION " \o FunctionFullName(c.Function) \o ";"

generateReplaceFunction(c) ==
    LET def == c.NewFunction.Definition
    IN  (IF HasPrefix(def, "CREATE FUNCTION")
         THEN "CREATE OR REPLACE" \o SubSeq(def, 7, Len(def))
         ELSE def) \o ";"

\* SQLGenerator.GenerateChange
GenerateChange(c) ==
    CASE c.kind = "CreateTableChange"     -> generateCreateTable(c)
      [] c.kind = "DropTableChange"       -> generateDropTable(c)
      [] c.kind = "AddColumnChange"       -> generateAddColumn(c)
      [] c.kind = "DropColumnChange"      -> generateDropColumn(c)
      [] c.kind = "AlterColumnChange"     -> generateAlterColumn(c)
      [] c.kind = "CreateIndexChange"     -> generateCreateIndex(c)
      [] c.kind = "DropIndexChange"       -> generateDropIndex(c)
      [] c.kind = "AddConstraintChange"   -> generateAddConstraint(c)
      [] c.kind = "DropConstraintChange"  -> generateDropConstraint(c)
      [] c.kind = "CreateEnumChange"      -> generateCreateEnum(c)
      [] c.kind = "DropEnumChange"        -> generateDropEnum(c)
      [] c.kind = "AddEnumValueChange"    -> generateAddEnumValue(c)
      [] c.kind = "CreateFunctionChange"  -> generateCreateFunction(c)
      [] c.kind = "DropFunctionChange"    -> generateDropFunction(c)
      [] c.kind = "ReplaceFunctionChange" -> generateReplaceFunction(c)
      [] OTHER                            -> ""

\* SQLGenerator.generateComment
generateComment(c) ==
    "-- " \o Description(c) \o (IF IsDestructive(c) THEN " (DESTRUCTIVE)" ELSE "")

\* SQLGenerator.Generate's loop from the k-th change on.
RECURSIVE GenerateFrom(_, _, _)
GenerateFrom(changes, k, IncludeComments) ==
    IF k > Len(changes) THEN << >>
    ELSE LET sql     == GenerateChange(changes[k])
             comment == generateComment(changes[k])
         IN  (IF sql = "" THEN << >>
              ELSE IF IncludeComments /\ comment # "" THEN <<comment, sql>>
              ELSE <<sql>>)
             \o GenerateFrom(changes, k + 1, IncludeComments)

\* SQLGenerator.Generate
Generate(changes, IncludeComments) == GenerateFrom(changes, 1, IncludeComments)

-----------------------------------------------------------------------------
(* Orderer (apply.go)                                                      *)

\* ChangeSet.ByType building its result by prepending.
RECURSIVE Reverse(_)
Reverse(q) == IF q = << >> THEN << >> ELSE Reverse(Tail(q)) \o <<Head(q)>>

ByType_Prepend(changes, t) == Reverse(SelectSeq(changes, LAMBDA c : ChangeType(c) = t))

\* ChangeSet.ByType
ByType(changes, t) == SelectSeq(changes, LAMBDA c : ChangeType(c) = t)

\* The phase order with ReplaceFunction forgotten.
order_NoReplaceFunction ==
    <<"CREATE_ENUM", "ADD_ENUM_VALUE", "CREATE_TABLE", "ADD_COLUMN", "CREATE_INDEX",
      "ADD_CONSTRAINT", "CREATE_FUNCTION", "DROP_CONSTRAINT",
      "DROP_INDEX", "ALTER_COLUMN", "DROP_COLUMN", "DROP_TABLE", "DROP_ENUM",
      "DROP_FUNCTION">>

\* The phase order of OrderChanges
order ==
    <<"CREATE_ENUM", "ADD_ENUM_VALUE", "CREATE_TABLE", "ADD_COLUMN", "CREATE_INDEX",
      "ADD_CONSTRAINT", "CREATE_FUNCTION", "REPLACE_FUNCTION", "DROP_CONSTRAINT",
      "DROP_INDEX", "ALTER_COLUMN", "DROP_COLUMN", "DROP_TABLE", "DROP_ENUM",
      "DROP_FUNCTION">>

RECURSIVE OrderChangesFrom(_, _)
OrderChangesFrom(changes, k) ==
    IF k > Len(order) THEN << >>
    ELSE ByType(changes, order[k]) \o OrderChangesFrom(changes, k + 1)

OrderChanges(changes) == OrderChangesFrom(changes, 1)

-----------------------------------------------------------------------------
(* Inputs: the schemas the extractor can deliver, within bounds            *)

MaxEnumLen == 3

EmptyMap == [k \in {} |-> Nil]

Labels == {"w", "x", "y", "z"}

\* Sequences of distinct elements of S no longer than n (pg_enum labels are unique).
DistinctSeqs(S, n) ==
    UNION { {q \in [1..k -> S] : \A i, j \in 1..k : i # j => q[i] # q[j]} : k \in 0..n }

NewSchema(tables, enums, functions) ==
    [Tables |-> tables, Enums |-> enums, Functions |-> functions]

NewEnum(name, schema, values) == [Name |-> name, Schema |-> schema, Values |-> values]

NewTable(name, schema, columns, indexes, constraints) ==
    [Name |-> name, Schema |-> schema, Columns |-> columns, Indexes |-> indexes,
     Constraints |-> constraints]

\* What information_schema.columns reports for a type: data_type,
\* character_maximum_length, numeric_precision, numeric_scale, and ARRAY.
TypeFacets ==
    { [DataType |-> "integer", CharMaxLength |-> Nil, NumericPrecision |-> Ptr(32),
       NumericScale |-> Ptr(0), IsArray |-> FALSE],
      [DataType |-> "character varying", CharMaxLength |-> Ptr(255), NumericPrecision |-> Nil,
       NumericScale |-> Nil, IsArray |-> FALSE],
      [DataType |-> "character varying", CharMaxLength |-> Nil, NumericPrecision |-> Nil,
       NumericScale |-> Nil, IsArray |-> FALSE],
      [DataType |-> "character", CharMaxLength |-> Ptr(1), NumericPrecision |-> Nil,
       NumericScale |-> Nil, IsArray |-> FALSE],
      [DataType |-> "numeric", CharMaxLength |-> Nil, NumericPrecision |-> Ptr(10),
       NumericScale |-> Ptr(2), IsArray |-> FALSE],
      [DataType |-> "numeric", CharMaxLength |-> Nil, NumericPrecision |-> Ptr(10),
       NumericScale |-> Ptr(0), IsArray |-> FALSE],
      [DataType |-> "text", CharMaxLength |-> Nil, NumericPrecision |-> Nil,
       NumericScale |-> Nil, IsArray |-> TRUE] }

IntegerFacet ==
    [DataType |-> "integer", CharMaxLength |-> Nil, NumericPrecision |-> Ptr(32),
     NumericScale |-> Ptr(0), IsArray |-> FALSE]

Defaults == {Nil, Ptr("0"), Ptr("1")}

ColumnPosition == [a |-> 1, b |-> 2]

NewColumn(name, facet, nullable, default) ==
    [Name |-> name, DataType |-> facet.DataType, IsNullable |-> nullable,
     DefaultValue |-> default, Position |-> ColumnPosition[name],
     CharMaxLength |-> facet.CharMaxLength, NumericPrecision |-> facet.NumericPrecision,
     NumericScale |-> facet.NumericScale, IsArray |-> facet.IsArray]

ColumnsNamed(name) ==
    {NewColumn(name, f, n, d) : f \in TypeFacets, n \in BOOLEAN, d \in Defaults}

PlainColumn(name) == NewColumn(name, IntegerFacet, FALSE, Nil)

NewIndex(name, tableName, columns, unique, primary, type, definition) ==
    [Name |-> name, TableName |-> tableName, Columns |-> columns, IsUnique |-> unique,
     IsPrimary |-> primary, Type |-> type, Definition |-> definition]

IndexesNamed(name, tableName) ==
    { NewIndex(name, tableName, <<"a">>, FALSE, FALSE, "btree",
               "CREATE INDEX " \o name \o " ON " \o tableName \o " USING btree (a)"),
      NewIndex(name, tableName, <<"a">>, TRUE, FALSE, "btree",
               "CREATE UNIQUE INDEX " \o name \o " ON " \o tableName \o " USING btree (a)"),
      NewIndex(name, tableName, <<"a">>, TRUE, TRUE, "btree",
               "CREATE UNIQUE INDEX " \o name \o " ON " \o tableName \o " USING btree (a)"),
      NewIndex(name, tableName, <<"a">>, FALSE, FALSE, "hash",
               "CREATE INDEX " \o name \o " ON " \o tableName \o " USING hash (a)"),
      NewIndex(name, tableName, <<"b">>, FALSE, FALSE, "btree",
               "CREATE INDEX " \o name \o " ON " \o tableName \o " USING btree (b)"),
      NewIndex(name, tableName, <<"a", "b">>, FALSE, FALSE, "btree",
               "CREATE INDEX " \o name \o " ON " \o tableName \o " USING btree (a, b)") }

NewConstraint(name, type, tableName, columns, definition, refTable) ==
    [Name |-> name, Type |-> type, TableName |-> tableName, Columns |-> columns,
     Definition |-> definition, RefTable |-> refTable]

ConstraintsNamed(name, tableName) ==
    { NewConstraint(name, "CHECK", tableName, <<"a">>, "CHECK ((a > 0))", ""),
      NewConstraint(name, "CHECK", tableName, <<"a">>, "CHECK ((a > 1))", ""),
      NewConstraint(name, "FOREIGN KEY", tableName, <<"a">>,
                    "FOREIGN KEY (a) REFERENCES t2(a)", "t2") }

\* PostgreSQL keeps a PRIMARY KEY constraint of the index's name for every primary index.
PrimaryKeyOf(idx) ==
    [n \in {i \in DOMAIN idx : idx[i].IsPrimary} |->
        NewConstraint(n, "PRIMARY KEY", idx[n].TableName, idx[n].Columns, "PRIMARY KEY (a)", "")]

MapUnion(m1, m2) ==
    [k \in DOMAIN m1 \cup DOMAIN m2 |-> IF k \in DOMAIN m1 THEN m1[k] ELSE m2[k]]

\* hex(sha256(definition)[:8]) of the extractor, on the definitions below
BodyHashOf(definition) ==
    CASE definition = "CREATE OR REPLACE FUNCTION f() RETURNS integer AS $$ SELECT 1 $$" -> "6b86b273ff34fce1"
      [] definition = "CREATE OR REPLACE FUNCTION f() RETURNS integer AS $$ SELECT 2 $$" -> "d4735e3a265e16ee"
      [] definition = "CREATE FUNCTION f() RETURNS text AS $$ SELECT 1 $$" -> "4e07408562bedb8b"
      [] OTHER -> "4b227777d4dd1fc6"

NewFunction(name, schema, arguments, returnType, definition) ==
    [Name |-> name, Schema |-> schema, Arguments |-> arguments, ReturnType |-> returnType,
     Language |-> "sql", Definition |-> definition, BodyHash |-> BodyHashOf(definition)]

FunctionsF ==
    { NewFunction("f", "public", "", "integer",
                  "CREATE OR REPLACE FUNCTION f() RETURNS integer AS $$ SELECT 1 $$"),
      NewFunction("f", "public", "", "integer",
                  "CREATE OR REPLACE FUNCTION f() RETURNS integer AS $$ SELECT 2 $$"),
      NewFunction("f", "public", "", "text",
                  "CREATE FUNCTION f() RETURNS text AS $$ SELECT 1 $$") }

FunctionG ==
    NewFunction("f", "public", "n integer", "integer",
                "CREATE OR REPLACE FUNCTION f(n integer) RETURNS integer AS $$ SELECT n $$")

TableT2 ==
    NewTable("t2", "app",
             [n \in {"a"} |-> PlainColumn("a")],
             [n \in {"i2"} |-> CHOOSE i \in IndexesNamed("i2", "t2") : i.IsUnique /\ ~i.IsPrimary],
             [n \in {"k2"} |-> CHOOSE c \in ConstraintsNamed("k2", "t2") :
                                    c.Definition = "CHECK ((a > 0))"])

\* One table whose column a takes every shape; column b comes and goes.
ColumnSchemas ==
    { NewSchema([n \in {"t1"} |-> NewTable("t1", "public", cols, EmptyMap, EmptyMap)],
                EmptyMap, EmptyMap)
      : cols \in PartialMaps([a |-> ColumnsNamed("a"), b |-> {PlainColumn("b")}]) }

\* Enum e1 takes every list of distinct labels; enum e2 comes and goes.
EnumSchemas ==
    { NewSchema(EmptyMap, enums, EmptyMap)
      : enums \in PartialMaps(
            [e1 |-> {NewEnum("e1", "public", v) : v \in DistinctSeqs(Labels, MaxEnumLen)},
             e2 |-> {NewEnum("e2", "app", <<"x">>)}]) }

\* Table t1 with every index i1 and constraint k1; tables t1 and t2 come and go.
\* A foreign key has its referenced table.
TableSchemas ==
    { s \in
        { NewSchema(tables, EmptyMap, EmptyMap)
          : tables \in PartialMaps(
                [t1 |-> { NewTable("t1", "public",
                                   [n \in {"a", "b"} |-> PlainColumn(n)], idx,
                                   MapUnion(con, PrimaryKeyOf(idx)))
                          : idx \in PartialMaps([i1 |-> IndexesNamed("i1", "t1")]),
                            con \in PartialMaps([k1 |-> ConstraintsNamed("k1", "t1")]) },
                 t2 |-> {TableT2}]) }
      : \A t \in DOMAIN s.Tables : \A k \in DOMAIN s.Tables[t].Constraints :
            s.Tables[t].Constraints[k].RefTable # ""
                => s.Tables[t].Constraints[k].RefTable \in DOMAIN s.Tables }

\* Function f() with every definition; the overload f(n integer) comes and goes.
FunctionSchemas ==
    { NewSchema(EmptyMap, EmptyMap, [sig \in DOMAIN fns |-> fns[sig]])
      : fns \in PartialMaps([s \in {Signature(FunctionG)} \cup {Signature(f) : f \in FunctionsF}
                              |-> IF s = Signature(FunctionG) THEN {FunctionG} ELSE FunctionsF]) }

\* Schemas with an enum, a table and a function at once.
MixedSchemas ==
    { NewSchema(tables, enums, fns)
      : tables \in PartialMaps(
            [t1 |-> { NewTable("t1", "public", [n \in {"a"} |-> c], idx, EmptyMap)
                      : c \in {PlainColumn("a"), NewColumn("a", IntegerFacet, TRUE, Ptr("0"))},
                        idx \in {[n \in {"i1"} |-> i] : i \in {j \in IndexesNamed("i1", "t1") :
                                        j.Columns = <<"a">> /\ j.Type = "btree" /\ ~j.IsPrimary}} }]),
        enums \in PartialMaps([e1 |-> {NewEnum("e1", "public", <<"x">>),
                                       NewEnum("e1", "public", <<"x", "y">>)}]),
        fns \in PartialMaps([s \in {"f()"} |-> {f \in FunctionsF : f.ReturnType = "integer"}]) }

SchemaFamilies == {ColumnSchemas, EnumSchemas, TableSchemas, FunctionSchemas, MixedSchemas}

-----------------------------------------------------------------------------
(* Diff and OrderChanges as the merge and diff commands call them          *)

\* No Applier method has been called.
ApplierIdle ==
    /\ mode = "none"
    /\ at = 0
    /\ Applied = << >>
    /\ Failed = << >>
    /\ result = "none"
    /\ err = ""
    /\ tx = "none"
    /\ pending = << >>
    /\ database = << >>
    /\ execLog = << >>
    /\ ctx = "live"
    /\ calls = << >>
    /\ statements = << >>

\* ValidateChanges, HasDestructive and DestructiveCount have not been called.
ValidatorIdle ==
    /\ warnings = << >>
    /\ errs = << >>
    /\ destructive = << >>
    /\ hasDestructive = FALSE
    /\ destructiveCount = 0

\* The merge command is not running: no flag is set and nothing was asked or written.
MergeIdle ==
    /\ dryRun = FALSE
    /\ migrationFile = FALSE
    /\ force = FALSE
    /\ answer = "none"
    /\ file = ""

\* No Brancher was made: there is no metadata, no server, and nothing was called.
BrancherIdle ==
    /\ Metadata = Nil
    /\ metadataFile = Nil
    /\ databases = Nil
    /\ op = Nil
    /\ prev = Nil

InitDiff ==
    /\ \E family \in SchemaFamilies : from \in family /\ to \in family
    /\ cs = << >>
    /\ csIn = << >>
    /\ ordered = << >>
    /\ pc = "input"
    /\ ApplierIdle
    /\ ValidatorIdle
    /\ BrancherIdle
    /\ MergeIdle

\* cs := Diff(from, to)
DiffStep ==
    /\ pc = "input"
    /\ cs' \in Diff(from, to)
    /\ csIn' = cs'
    /\ pc' = "diffed"
    /\ UNCHANGED <<from, to, ordered>>
    /\ UNCHANGED <<applyVars, validateVars, mergeVars, brancherVars>>

\* ordered := OrderChanges(cs)
OrderStep ==
    /\ pc = "diffed"
    /\ ordered' = OrderChanges(cs)
    /\ pc' = "ordered"
    /\ UNCHANGED <<from, to, cs, csIn>>
    /\ UNCHANGED <<applyVars, validateVars, mergeVars, brancherVars>>

NextDiff == DiffStep \/ OrderStep

SpecDiff == InitDiff /\ [][NextDiff]_vars

-----------------------------------------------------------------------------
(* OrderChanges on any ChangeSet over the fifteen variants                 *)

MaxChanges == 3

SampleTable == NewTable("t1", "public", [n \in {"a"} |-> PlainColumn("a")], EmptyMap, EmptyMap)

SampleIndexes == {j \in IndexesNamed("i1", "t1") : j.Columns = <<"a">> /\ j.Type = "btree" /\ ~j.IsPrimary}

SampleConstraints == {c \in ConstraintsNamed("k1", "t1") : c.Definition # "CHECK ((a > 1))"}

SampleFunctions == {f \in FunctionsF : f.ReturnType = "integer"}

\* Two changes of every variant.
SampleChanges ==
    {CreateTableChange(t) : t \in {SampleTable, TableT2}}
    \cup {DropTableChange(t) : t \in {SampleTable, TableT2}}
    \cup {AddColumnChange("t1", PlainColumn(n)) : n \in {"a", "b"}}
    \cup {DropColumnChange("t1", PlainColumn(n)) : n \in {"a", "b"}}
    \cup {AlterColumnChange("t1", "a", PlainColumn("a"), c,
                            computeColumnAlteration(PlainColumn("a"), c))
          : c \in {NewColumn("a", IntegerFacet, TRUE, Nil),
                   NewColumn("a", IntegerFacet, FALSE, Ptr("0"))}}
    \cup {CreateIndexChange(x) : x \in SampleIndexes}
    \cup {DropIndexChange(x) : x \in SampleIndexes}
    \cup {AddConstraintChange("t1", c) : c \in SampleConstraints}
    \cup {DropConstraintChange("t1", c) : c \in SampleConstraints}
    \cup {CreateEnumChange(NewEnum(n, "public", <<"x">>)) : n \in {"e1", "e2"}}
    \cup {DropEnumChange(NewEnum(n, "public", <<"x">>)) : n \in {"e1", "e2"}}
    \cup {AddEnumValueChange("e1", v, "x") : v \in {"y", "z"}}
    \cup {CreateFunctionChange(f) : f \in SampleFunctions}
    \cup {DropFunctionChange(f) : f \in SampleFunctions}
    \cup {ReplaceFunctionChange(q[1], q[2])
          : q \in {r \in SampleFunctions \X SampleFunctions : r[1] # r[2]}}

SeqsUpTo(S, n) == UNION {[1..k -> S] : k \in 0..n}

EmptySchema == NewSchema(EmptyMap, EmptyMap, EmptyMap)

InitOrder ==
    /\ from = EmptySchema
    /\ to = EmptySchema
    /\ cs \in SeqsUpTo(SampleChanges, MaxChanges)
    /\ csIn = cs
    /\ ordered = << >>
    /\ pc = "diffed"
    /\ ApplierIdle
    /\ ValidatorIdle
    /\ BrancherIdle
    /\ MergeIdle

NextOrder == OrderStep

SpecOrder == InitOrder /\ [][NextOrder]_vars

\* C5: OrderChanges is a pure permutation: its output holds exactly the Change values
\* of its input, each as many times, and the input ChangeSet is left unchanged.
C5_OrderIsPermutation ==
    pc = "ordered" =>
        /\ Len(ordered) = Len(csIn)
        /\ \A c \in SeqRange(csIn) \cup SeqRange(ordered) :
              Occurrences(ordered, {c}) = Occurrences(csIn, {c})
        /\ cs = csIn

\* OrderChanges has reordered three changes, two of them the same value.
C5_Witness ==
    /\ pc = "ordered"
    /\ Len(csIn) = 3
    /\ csIn[1] = csIn[3]
    /\ csIn[1].kind = "ReplaceFunctionChange"
    /\ ordered # csIn

\* The phase of a change in the fixed order of the Orderer's contract.
C6_Phase(c) ==
    CASE c.kind = "CreateEnumChange"      -> 1
      [] c.kind = "AddEnumValueChange"    -> 2
      [] c.kind = "CreateTableChange"     -> 3
      [] c.kind = "AddColumnChange"       -> 4
      [] c.kind = "CreateIndexChange"     -> 5
      [] c.kind = "AddConstraintChange"   -> 6
      [] c.kind = "CreateFunctionChange"  -> 7
      [] c.kind = "ReplaceFunctionChange" -> 8
      [] c.kind = "DropConstraintChange"  -> 9
      [] c.kind = "DropIndexChange"       -> 10
      [] c.kind = "AlterColumnChange"     -> 11
      [] c.kind = "DropColumnChange"      -> 12
      [] c.kind = "DropTableChange"       -> 13
      [] c.kind = "DropEnumChange"        -> 14
      [] c.kind = "DropFunctionChange"    -> 15

\* C6: in the output of OrderChanges a change of an earlier phase precedes every change
\* of a later phase (every CreateEnum precedes every DropColumn), and the changes of one
\* phase keep their relative input order.
C6_PhaseOrderStable ==
    pc = "ordered" =>
        /\ \A a, b \in DOMAIN ordered :
              a < b => C6_Phase(ordered[a]) <= C6_Phase(ordered[b])
        /\ \A a, b \in DOMAIN ordered :
              (ordered[a].kind = "CreateEnumChange" /\ ordered[b].kind = "DropColumnChange")
                  => a < b
        /\ \A ph \in 1..15 :
              SelectSeq(ordered, LAMBDA c : C6_Phase(c) = ph)
                  = SelectSeq(csIn, LAMBDA c : C6_Phase(c) = ph)
        /\ Len(ordered) = Len(csIn)

\* OrderChanges has moved two different CreateEnum changes, in their input order, ahead
\* of a DropColumn that came first in the input.
C6_Witness ==
    /\ pc = "ordered"
    /\ Len(csIn) = 3
    /\ csIn[1].kind = "DropColumnChange"
    /\ csIn[2].kind = "CreateEnumChange" /\ csIn[3].kind = "CreateEnumChange"
    /\ csIn[2] # csIn[3]
    /\ ordered = <<csIn[2], csIn[3], csIn[1]>>

-----------------------------------------------------------------------------
(* Properties of Diff                                                      *)

Diffed == pc \in {"diffed", "ordered"}

\* The column, index and constraint changes that name table t.
IsContentChangeFor(c, t) ==
    \/ /\ c.kind \in {"AddColumnChange", "DropColumnChange", "AlterColumnChange",
                      "AddConstraintChange", "DropConstraintChange"}
       /\ c.TableName = TableFullName(t)
    \/ /\ c.kind \in {"CreateIndexChange", "DropIndexChange"}
       /\ c.Index.TableName = t.Name

\* C1: for every Schema S, Diff(S, S) returns an empty ChangeSet.
C1_DiffSelfEmpty == (Diffed /\ from = to) => cs = << >>

\* Diff(S, S) has run on a schema S with two tables, columns, an index and a constraint.
C1_Witness ==
    /\ pc = "diffed"
    /\ from = to
    /\ DOMAIN from.Tables = {"t1", "t2"}
    /\ DOMAIN from.Tables["t1"].Indexes = {"i1"}
    /\ "k1" \in DOMAIN from.Tables["t1"].Constraints

\* C8: a table only in from gets exactly one DropTable, which is destructive, and no
\* column, index or constraint change; a table only in to gets exactly one CreateTable,
\* which is not destructive, and no column, index or constraint change either.
C8_DropCreateTable ==
    Diffed =>
        /\ \A name \in DOMAIN from.Tables \ DOMAIN to.Tables :
              /\ Occurrences(cs, {c \in SeqRange(cs) : c.kind = "DropTableChange" /\ c.Table.Name = name}) = 1
              /\ \A i \in DOMAIN cs :
                    /\ (cs[i].kind = "DropTableChange" /\ cs[i].Table.Name = name)
                          => (cs[i].Table = from.Tables[name] /\ IsDestructive(cs[i]))
                    /\ ~(cs[i].kind = "CreateTableChange" /\ cs[i].Table.Name = name)
                    /\ ~IsContentChangeFor(cs[i], from.Tables[name])
        /\ \A name \in DOMAIN to.Tables \ DOMAIN from.Tables :
              /\ Occurrences(cs, {c \in SeqRange(cs) : c.kind = "CreateTableChange" /\ c.Table.Name = name}) = 1
              /\ \A i \in DOMAIN cs :
                    /\ (cs[i].kind = "CreateTableChange" /\ cs[i].Table.Name = name)
                          => (cs[i].Table = to.Tables[name] /\ ~IsDestructive(cs[i]))
                    /\ ~(cs[i].kind = "DropTableChange" /\ cs[i].Table.Name = name)
                    /\ ~IsContentChangeFor(cs[i], to.Tables[name])

\* Diff has run where a table with an index and a constraint exists only in from while
\* another table exists only in to.
C8_Witness ==
    /\ pc = "diffed"
    /\ DOMAIN from.Tables = {"t1"}
    /\ DOMAIN to.Tables = {"t2"}
    /\ DOMAIN from.Tables["t1"].Indexes = {"i1"}
    /\ DOMAIN from.Tables["t1"].Constraints = {"k1"}
    /\ Len(cs) = 2

\* C9: a column present in both versions of a table gets no change when full type,
\* nullability and default agree, and otherwise exactly one AlterColumn whose flags are
\* set exactly for the attributes that differ, with the old and new values.
C9_AlterColumnFolding ==
    Diffed =>
        \A tn \in DOMAIN from.Tables \cap DOMAIN to.Tables :
            \A cn \in DOMAIN from.Tables[tn].Columns \cap DOMAIN to.Tables[tn].Columns :
                LET fc == from.Tables[tn].Columns[cn]
                    tc == to.Tables[tn].Columns[cn]
                    cc == SelectSeq(cs, LAMBDA c :
                            /\ c.kind \in {"AddColumnChange", "DropColumnChange",
                                           "AlterColumnChange"}
                            /\ c.TableName = TableFullName(to.Tables[tn])
                            /\ (IF c.kind = "AlterColumnChange" THEN c.ColumnName
                                ELSE c.Column.Name) = cn)
                    typeDiffers     == FullType(fc) # FullType(tc)
                    nullableDiffers == fc.IsNullable # tc.IsNullable
                    defaultDiffers  == fc.DefaultValue # tc.DefaultValue
                IN  IF ~typeDiffers /\ ~nullableDiffers /\ ~defaultDiffers
                    THEN cc = << >>
                    ELSE /\ Len(cc) = 1
                         /\ cc[1].kind = "AlterColumnChange"
                         /\ cc[1].OldColumn = fc
                         /\ cc[1].NewColumn = tc
                         /\ LET alt == cc[1].Alteration
                            IN  /\ alt.TypeChanged = typeDiffers
                                /\ alt.NullableChanged = nullableDiffers
                                /\ alt.DefaultChanged = defaultDiffers
                                /\ typeDiffers =>
                                      (alt.OldType = FullType(fc) /\ alt.NewType = FullType(tc))
                                /\ nullableDiffers =>
                                      (alt.OldNullable = fc.IsNullable
                                       /\ alt.NewNullable = tc.IsNullable)
                                /\ defaultDiffers =>
                                      (alt.OldDefault = fc.DefaultValue
                                       /\ alt.NewDefault = tc.DefaultValue)

\* Diff has run on a column whose type (varchar(255) to numeric(10,2)), nullability and
\* default all changed, and has folded the three into one change.
C9_Witness ==
    /\ pc = "diffed"
    /\ DOMAIN from.Tables = {"t1"} /\ DOMAIN to.Tables = {"t1"}
    /\ "a" \in DOMAIN from.Tables["t1"].Columns \cap DOMAIN to.Tables["t1"].Columns
    /\ FullType(from.Tables["t1"].Columns["a"]) = "varchar(255)"
    /\ FullType(to.Tables["t1"].Columns["a"]) = "numeric(10,2)"
    /\ from.Tables["t1"].Columns["a"].IsNullable # to.Tables["t1"].Columns["a"].IsNullable
    /\ from.Tables["t1"].Columns["a"].DefaultValue = Ptr("0")
    /\ to.Tables["t1"].Columns["a"].DefaultValue = Ptr("1")
    /\ Len(cs) = 1

\* The labels of to.Values that from.Values lacks, each with the label before it.
RECURSIVE ExpectedEnumAdds(_, _, _)
ExpectedEnumAdds(fe, te, i) ==
    IF i > Len(te.Values) THEN {}
    ELSE (IF \A k \in DOMAIN fe.Values : fe.Values[k] # te.Values[i]
          THEN {[Value |-> te.Values[i],
                 After |-> IF i = 1 THEN "" ELSE te.Values[i - 1]]}
          ELSE {})
         \cup ExpectedEnumAdds(fe, te, i + 1)

\* C10: an enum present in both schemas gets exactly one AddEnumValue for each label of
\* to.Values absent from from.Values, anchored After the label preceding it in to.Values
\* (empty for the first), and no other change.
C10_EnumValues ==
    Diffed =>
        \A en \in DOMAIN from.Enums \cap DOMAIN to.Enums :
            LET fe == from.Enums[en]
                te == to.Enums[en]
                ec == SelectSeq(cs, LAMBDA c :
                        \/ c.kind = "AddEnumValueChange" /\ c.EnumName = te.Name
                        \/ c.kind \in {"CreateEnumChange", "DropEnumChange"}
                           /\ c.Enum.Name = en)
                expected == ExpectedEnumAdds(fe, te, 1)
            IN  /\ \A i \in DOMAIN ec : ec[i].kind = "AddEnumValueChange"
                /\ Len(ec) = Cardinality(expected)
                /\ \A e \in expected :
                      Occurrences(ec, {c \in SeqRange(ec) : c.Value = e.Value /\ c.After = e.After}) = 1

\* Diff has run on an enum to which a first label and a later label were added while
\* one label was removed and the others were reordered.
C10_Witness ==
    /\ pc = "diffed"
    /\ "e1" \in DOMAIN from.Enums \cap DOMAIN to.Enums
    /\ from.Enums["e1"].Values = <<"x", "y", "z">>
    /\ to.Enums["e1"].Values = <<"w", "y", "x">>
    /\ Len(cs) = 1

-----------------------------------------------------------------------------
(* Replaying a ChangeSet by the abstract effect of each change (C7)        *)

MapPut(m, k, v) == [x \in DOMAIN m \cup {k} |-> IF x = k THEN v ELSE m[x]]
MapDel(m, k) == [x \in DOMAIN m \ {k} |-> m[x]]

ColumnView(c) ==
    [FullType |-> FullType(c), IsNullable |-> c.IsNullable, DefaultValue |-> c.DefaultValue]
IndexView(i) ==
    [IsUnique |-> i.IsUnique, IsPrimary |-> i.IsPrimary, Type |-> i.Type,
     Columns |-> i.Columns]
ConstraintView(c) == [Type |-> c.Type, Definition |-> c.Definition]
FunctionView(f) == [ReturnType |-> f.ReturnType, BodyHash |-> f.BodyHash]
TableView(t) ==
    [Name |-> t.Name, FullName |-> TableFullName(t),
     Columns |-> [n \in DOMAIN t.Columns |-> ColumnView(t.Columns[n])],
     Indexes |-> [n \in DOMAIN t.Indexes |-> IndexView(t.Indexes[n])],
     Constraints |-> [n \in DOMAIN t.Constraints |-> ConstraintView(t.Constraints[n])]]
SchemaView(s) ==
    [Tables |-> [n \in DOMAIN s.Tables |-> TableView(s.Tables[n])],
     Functions |-> [sig \in DOMAIN s.Functions |-> FunctionView(s.Functions[sig])]]

\* The tables a change names, updated by Upd.
OnTable(v, Names(_), Upd(_)) ==
    [v EXCEPT !.Tables = [n \in DOMAIN v.Tables |->
        IF Names(v.Tables[n]) THEN Upd(v.Tables[n]) ELSE v.Tables[n]]]

AlteredColumn(col, alt) ==
    [FullType     |-> IF alt.TypeChanged THEN alt.NewType ELSE col.FullType,
     IsNullable   |-> IF alt.NullableChanged THEN alt.NewNullable ELSE col.IsNullable,
     DefaultValue |-> IF alt.DefaultChanged THEN alt.NewDefault ELSE col.DefaultValue]

Effect(v, c) ==
    CASE c.kind = "CreateTableChange" ->
            [v EXCEPT !.Tables = MapPut(@, c.Table.Name, TableView(c.Table))]
      [] c.kind = "DropTableChange" ->
            [v EXCEPT !.Tables = MapDel(@, c.Table.Name)]
      [] c.kind = "AddColumnChange" ->
            OnTable(v, LAMBDA t : t.FullName = c.TableName,
                LAMBDA t : [t EXCEPT !.Columns = MapPut(@, c.Column.Name, ColumnView(c.Column))])
      [] c.kind = "DropColumnChange" ->
            OnTable(v, LAMBDA t : t.FullName = c.TableName,
                LAMBDA t : [t EXCEPT !.Columns = MapDel(@, c.Column.Name)])
      [] c.kind = "AlterColumnChange" ->
            OnTable(v, LAMBDA t : t.FullName = c.TableName /\ c.ColumnName \in DOMAIN t.Columns,
                LAMBDA t : [t EXCEPT !.Columns[c.ColumnName] = AlteredColumn(@, c.Alteration)])
      [] c.kind = "CreateIndexChange" ->
            OnTable(v, LAMBDA t : t.Name = c.Index.TableName,
                LAMBDA t : [t EXCEPT !.Indexes = MapPut(@, c.Index.Name, IndexView(c.Index))])
      [] c.kind = "DropIndexChange" ->
            OnTable(v, LAMBDA t : t.Name = c.Index.TableName,
                LAMBDA t : [t EXCEPT !.Indexes = MapDel(@, c.Index.Name)])
      [] c.kind = "AddConstraintChange" ->
            OnTable(v, LAMBDA t : t.FullName = c.TableName,
                LAMBDA t : [t EXCEPT !.Constraints =
                                MapPut(@, c.Constraint.Name, ConstraintView(c.Constraint))])
      [] c.kind = "DropConstraintChange" ->
            OnTable(v, LAMBDA t : t.FullName = c.TableName,
                LAMBDA t : [t EXCEPT !.Constraints = MapDel(@, c.Constraint.Name)])
      [] c.kind = "CreateFunctionChange" ->
            [v EXCEPT !.Functions = MapPut(@, Signature(c.Function), FunctionView(c.Function))]
      [] c.kind = "DropFunctionChange" ->
            [v EXCEPT !.Functions = MapDel(@, Signature(c.Function))]
      [] c.kind = "ReplaceFunctionChange" ->
            [v EXCEPT !.Functions =
                MapPut(@, Signature(c.NewFunction), FunctionView(c.NewFunction))]
      [] OTHER -> v

RECURSIVE Replay(_, _)
Replay(v, changes) ==
    IF changes = << >> THEN v ELSE Replay(Effect(v, Head(changes)), Tail(changes))

\* The indexes that back no primary key, by uniqueness, method and column list.
NonPrimaryIndexes(idx) ==
    [n \in {k \in DOMAIN idx : ~idx[k].IsPrimary} |->
        [IsUnique |-> idx[n].IsUnique, Type |-> idx[n].Type, Columns |-> idx[n].Columns]]

ReplayYields(f, t, changes) ==
    LET got  == Replay(SchemaView(f), changes)
        want == SchemaView(t)
    IN  /\ DOMAIN got.Tables = DOMAIN want.Tables
        /\ \A n \in DOMAIN want.Tables : got.Tables[n].Columns = want.Tables[n].Columns
        /\ \A n \in DOMAIN f.Tables \cap DOMAIN t.Tables :
              /\ NonPrimaryIndexes(got.Tables[n].Indexes)
                    = NonPrimaryIndexes(want.Tables[n].Indexes)
              /\ got.Tables[n].Constraints = want.Tables[n].Constraints
        /\ got.Functions = want.Functions

\* C7: replaying the changes of Diff(from, to) in emitted order against from yields a
\* schema equal to to on table names, columns, the both-present tables' non-primary-key
\* indexes and constraints, and functions.
C7_ReplayYieldsTo == Diffed => ReplayYields(from, to, cs)

\* An index name that is non-primary in from and primary in to.
IndexBecomesPrimary ==
    \E n \in DOMAIN from.Tables \cap DOMAIN to.Tables :
        \E i \in DOMAIN from.Tables[n].Indexes \cap DOMAIN to.Tables[n].Indexes :
            ~from.Tables[n].Indexes[i].IsPrimary /\ to.Tables[n].Indexes[i].IsPrimary

\* What remains of C7 once an index that becomes primary is set aside.
C7_ReplayUnlessBecomesPrimary == (Diffed /\ ~IndexBecomesPrimary) => ReplayYields(from, to, cs)

-----------------------------------------------------------------------------
(* Applier (apply.go)                                                      *)

\* The errors the database reports for a statement or a transaction command.
DbErrors == {"relation already exists (SQLSTATE 42P07)", "conn closed"}

\* The errors a call on the connection can return under context c: with a cancelled
\* context every call fails with the context's error.
CallErrors(c) == IF c = "cancelled" THEN {"context canceled"} ELSE DbErrors

\* Whether a call on the connection can succeed under context c.
CallCanSucceed(c) == c = "live"

\* fmt.Errorf(prefix + ": %w", e)
Errorf(prefix, e) == prefix \o ": " \o e

\* ChangeSet.IsEmpty, answering FALSE for every ChangeSet.
IsEmpty_Never(changes) == FALSE

\* ChangeSet.IsEmpty
IsEmpty(changes) == Len(changes) = 0

\* The transaction and the database it works on: what the statements executed in the
\* open transaction did is pending until the transaction is closed.
TxState == [tx |-> tx, pending |-> pending, database |-> database, ctx |-> ctx]

\* tx.Commit succeeding: the pending statements take effect together
Commit(t) ==
    [t EXCEPT !.tx = "committed", !.pending = << >>, !.database = t.database \o t.pending]

\* The deferred call made, against the code, to tx.Commit.
Rollback_Commits(t) == IF t.tx = "open" THEN Commit(t) ELSE t

\* A deferred Rollback that a cancelled context makes fail and leave the
\* transaction as it is.
Rollback_FailsWhenCancelled(t) ==
    IF t.tx = "open" /\ t.ctx = "live" THEN [t EXCEPT !.tx = "rolledback", !.pending = << >>]
    ELSE t

\* tx.Rollback(ctx): discards what the open transaction did, and does nothing to a
\* transaction already closed. Under a cancelled context the ROLLBACK cannot be sent;
\* the driver then closes the connection, and the server discards the transaction of
\* a closed connection.
Rollback(t) ==
    IF t.tx = "open"
    THEN IF t.ctx = "cancelled" THEN [t EXCEPT !.tx = "aborted", !.pending = << >>]
         ELSE [t EXCEPT !.tx = "rolledback", !.pending = << >>]
    ELSE t

\* ChangeError
ChangeError(change, sql, e) == [Change |-> change, SQL |-> sql, Error |-> e]

\* The function returns: its deferred Rollback has run on transaction state t, after
\* the calls in log.
Returns(res, e, t, log) ==
    /\ pc' = "returned"
    /\ result' = res
    /\ err' = e
    /\ tx' = Rollback(t).tx
    /\ pending' = Rollback(t).pending
    /\ database' = Rollback(t).database
    /\ calls' = IF t.tx = "open" THEN Append(log, "Rollback") ELSE log

\* Apply, up to the loop: the result is allocated, an empty ChangeSet returns at once,
\* and the transaction is begun.
ApplyBegin ==
    /\ pc = "call"
    /\ mode = "Apply"
    /\ Applied' = << >>
    /\ Failed' = << >>
    /\ \/ /\ IsEmpty(cs)
          /\ pc' = "returned"
          /\ result' = "ApplyResult"
          /\ err' = ""
          /\ UNCHANGED <<tx, pending, database, calls>>
       \/ /\ ~IsEmpty(cs)
          /\ calls' = Append(calls, "Begin")
          /\ \E e \in CallErrors(ctx) :
                /\ pc' = "returned"
                /\ result' = "nil"
                /\ err' = Errorf("failed to begin transaction", e)
          /\ UNCHANGED <<tx, pending, database>>
       \/ /\ ~IsEmpty(cs)
          /\ CallCanSucceed(ctx)
          /\ calls' = Append(calls, "Begin")
          /\ tx' = "open"
          /\ pc' = "loop"
          /\ UNCHANGED <<result, err, pending, database>>
    /\ UNCHANGED <<from, to, cs, csIn, ordered, mode, at, execLog, ctx, statements>>
    /\ UNCHANGED <<validateVars, mergeVars, brancherVars>>

\* One iteration of Apply's loop over cs.Changes.
ApplyIterate ==
    /\ pc = "loop"
    /\ mode = "Apply"
    /\ at <= Len(cs)
    /\ LET change == cs[at]
           sql    == GenerateChange(change)
       IN  \/ /\ sql = ""
              /\ at' = at + 1
              /\ UNCHANGED <<pc, Applied, Failed, result, err, tx, pending, database,
                             execLog, calls>>
           \/ /\ sql # ""
              /\ execLog' = Append(execLog, sql)
              /\ \E e \in CallErrors(ctx) :
                    /\ Failed' = Append(Failed, ChangeError(change, sql, e))
                    /\ Returns("ApplyResult", Errorf("failed to apply change", e), TxState,
                               Append(calls, "Exec"))
              /\ UNCHANGED <<at, Applied>>
           \/ /\ sql # ""
              /\ CallCanSucceed(ctx)
              /\ execLog' = Append(execLog, sql)
              /\ calls' = Append(calls, "Exec")
              /\ pending' = Append(pending, sql)
              /\ Applied' = Append(Applied, change)
              /\ at' = at + 1
              /\ UNCHANGED <<pc, Failed, result, err, tx, database>>
    /\ UNCHANGED <<from, to, cs, csIn, ordered, mode, ctx, statements>>
    /\ UNCHANGED <<validateVars, mergeVars, brancherVars>>

\* Apply after the loop: tx.Commit, then the return.
ApplyCommit ==
    /\ pc = "loop"
    /\ mode = "Apply"
    /\ at > Len(cs)
    /\ \/ \E e \in CallErrors(ctx) :
             Returns("ApplyResult", Errorf("failed to commit transaction", e), TxState,
                     Append(calls, "Commit"))
       \/ /\ CallCanSucceed(ctx)
          /\ Returns("ApplyResult", "", Commit(TxState), Append(calls, "Commit"))
    /\ UNCHANGED <<from, to, cs, csIn, ordered, mode, at, Applied, Failed, execLog, ctx,
                   statements>>
    /\ UNCHANGED <<validateVars, mergeVars, brancherVars>>

\* One iteration of ApplyWithContinue's loop: the statement is executed on the
\* connection, outside any transaction, so it takes effect as soon as it succeeds.
ContinueIterate ==
    /\ pc \in {"call", "loop"}
    /\ mode = "ApplyWithContinue"
    /\ at <= Len(cs)
    /\ pc' = "loop"
    /\ at' = at + 1
    /\ LET change == cs[at]
           sql    == GenerateChange(change)
       IN  \/ /\ sql = ""
              /\ UNCHANGED <<Applied, Failed, database, execLog, calls>>
           \/ /\ sql # ""
              /\ execLog' = Append(execLog, sql)
              /\ calls' = Append(calls, "Exec")
              /\ \E e \in CallErrors(ctx) :
                    Failed' = Append(Failed, ChangeError(change, sql, e))
              /\ UNCHANGED <<Applied, database>>
           \/ /\ sql # ""
              /\ CallCanSucceed(ctx)
              /\ execLog' = Append(execLog, sql)
              /\ calls' = Append(calls, "Exec")
              /\ database' = Append(database, sql)
              /\ Applied' = Append(Applied, change)
              /\ UNCHANGED Failed
    /\ UNCHANGED <<from, to, cs, csIn, ordered, mode, result, err, tx, pending, ctx,
                   statements>>
    /\ UNCHANGED <<validateVars, mergeVars, brancherVars>>

\* ApplyWithContinue after the loop.
ContinueReturn ==
    /\ pc \in {"call", "loop"}
    /\ mode = "ApplyWithContinue"
    /\ at > Len(cs)
    /\ pc' = "returned"
    /\ result' = "ApplyResult"
    /\ UNCHANGED <<from, to, cs, csIn, ordered, mode, at, Applied, Failed, err, tx, pending,
                   database, execLog, ctx, calls, statements>>
    /\ UNCHANGED <<validateVars, mergeVars, brancherVars>>

\* DryRun's loop with the skip of Apply's loop in place of its error return.
RECURSIVE DryRunFrom_Skips(_, _, _)
DryRunFrom_Skips(changes, k, sofar) ==
    IF k > Len(changes) THEN [statements |-> sofar, err |-> ""]
    ELSE IF GenerateChange(changes[k]) = "" THEN DryRunFrom_Skips(changes, k + 1, sofar)
    ELSE DryRunFrom_Skips(changes, k + 1, Append(sofar, GenerateChange(changes[k])))

\* DryRun's loop from change k on, sofar being the statements collected; the result
\* is DryRun's pair, a nil []string being << >> and a nil error "".
RECURSIVE DryRunFrom(_, _, _)
DryRunFrom(changes, k, sofar) ==
    IF k > Len(changes) THEN [statements |-> sofar, err |-> ""]
    ELSE IF GenerateChange(changes[k]) = ""
         THEN [statements |-> << >>,
               err |-> "cannot generate SQL for change: " \o Description(changes[k])]
    ELSE DryRunFrom(changes, k + 1, Append(sofar, GenerateChange(changes[k])))

\* DryRun skipping what it cannot render.
DryRun_Skips(changes) == DryRunFrom_Skips(changes, 1, << >>)

\* Applier.DryRun
DryRun(changes) == DryRunFrom(changes, 1, << >>)

\* The call of DryRun.
DryRunCall ==
    /\ pc = "call"
    /\ mode = "DryRun"
    /\ statements' = DryRun(cs).statements
    /\ err' = DryRun(cs).err
    /\ pc' = "returned"
    /\ UNCHANGED <<from, to, cs, csIn, ordered, mode, at, Applied, Failed, result, tx,
                   pending, database, execLog, ctx, calls>>
    /\ UNCHANGED <<validateVars, mergeVars, brancherVars>>

\* The caller cancels the context while the method runs.
CancelContext ==
    /\ pc \in {"call", "loop"}
    /\ mode \in {"Apply", "ApplyWithContinue"}
    /\ ctx = "live"
    /\ ctx' = "cancelled"
    /\ UNCHANGED <<from, to, cs, csIn, ordered, pc, mode, at, Applied, Failed, result, err,
                   tx, pending, database, execLog, calls, statements>>
    /\ UNCHANGED <<validateVars, mergeVars, brancherVars>>

VarcharFacet == CHOOSE f \in TypeFacets : f.CharMaxLength = Ptr(255)

\* The changes handed to the Applier: changes of several kinds, one of which folds
\* three alterations into one change, and one AlterColumnChange whose Alteration has
\* no flag set, which the generator renders as no statement.
AppliedSamples ==
    {CreateTableChange(SampleTable),
     AddColumnChange("t1", PlainColumn("b")),
     DropColumnChange("t1", PlainColumn("b")),
     AlterColumnChange("t1", "a", PlainColumn("a"),
                       NewColumn("a", VarcharFacet, TRUE, Ptr("0")),
                       computeColumnAlteration(PlainColumn("a"),
                                               NewColumn("a", VarcharFacet, TRUE, Ptr("0")))),
     AlterColumnChange("t1", "a", PlainColumn("a"), PlainColumn("a"), NoAlteration)}

InitApply ==
    /\ from = EmptySchema
    /\ to = EmptySchema
    /\ cs \in SeqsUpTo(AppliedSamples, MaxChanges)
    /\ csIn = cs
    /\ ordered = << >>
    /\ pc = "call"
    /\ mode \in {"Apply", "ApplyWithContinue", "DryRun"}
    /\ at = 1
    /\ Applied = << >>
    /\ Failed = << >>
    /\ result = "none"
    /\ err = ""
    /\ tx = "none"
    /\ pending = << >>
    /\ database = << >>
    /\ execLog = << >>
    /\ ctx = "live"
    /\ calls = << >>
    /\ statements = << >>
    /\ ValidatorIdle
    /\ BrancherIdle
    /\ MergeIdle

NextApply ==
    \/ ApplyBegin
    \/ ApplyIterate
    \/ ApplyCommit
    \/ ContinueIterate
    \/ ContinueReturn
    \/ DryRunCall
    \/ CancelContext

SpecApply == InitApply /\ [][NextApply]_vars

-----------------------------------------------------------------------------
(* Properties of the Applier                                               *)

\* Every error a call on the connection can return.
AnyError == CallErrors("live") \cup CallErrors("cancelled")

\* The statements of a ChangeSet, in order: what the generator renders of its changes.
Statements(changes) ==
    SelectSeq([k \in DOMAIN changes |-> GenerateChange(changes[k])], LAMBDA q : q # "")

EveryChangeRenders == \A k \in DOMAIN cs : GenerateChange(cs[k]) # ""

\* The elements of seq at the positions in S, in order.
Pick(seq, S) == LET F[k \in 0..Len(seq)] ==
                        IF k = 0 THEN << >>
                        ELSE IF k \in S THEN Append(F[k - 1], seq[k]) ELSE F[k - 1]
                IN  F[Len(seq)]

\* C2: transactional Apply is all-or-nothing. While Apply runs, nothing it executed has
\* taken effect in the database; when it has returned, the database holds every statement
\* of the ChangeSet, in order, exactly when Apply returned no error, and otherwise holds
\* none of them; a recorded failure comes with an error and with nothing persisted, and
\* the transaction is never left open.
C2_ApplyAllOrNothing ==
    mode = "Apply" =>
        /\ pc # "returned" => database = << >>
        /\ pc = "returned" =>
              /\ err = "" => database = Statements(cs)
              /\ err # "" => database = << >>
              /\ Failed # << >> => (err # "" /\ database = << >>)
              /\ tx # "open"
              /\ pending = << >>

\* Apply has returned after the second of three statements failed: the first had been
\* executed in the transaction and is not in the database.
C2_Witness ==
    /\ mode = "Apply"
    /\ pc = "returned"
    /\ Len(cs) = 3
    /\ EveryChangeRenders
    /\ Len(Applied) = 1
    /\ Len(Failed) = 1
    /\ Len(execLog) = 2
    /\ tx = "rolledback"
    /\ database = << >>
    /\ err # ""

\* What C3 says of an Apply that returned with a failure recorded: for the failing
\* change cs[k], Failed is that one entry, Applied is cs[1..k-1], the statements executed
\* are those of cs[1..k], each once and none of a later change, and the error returned
\* wraps the driver's.
StoppedAtFirstFailure ==
    \E k \in DOMAIN cs : \E e \in AnyError :
        /\ Failed = <<ChangeError(cs[k], GenerateChange(cs[k]), e)>>
        /\ Applied = SubSeq(cs, 1, k - 1)
        /\ execLog = [j \in 1..k |-> GenerateChange(cs[j])]
        /\ err = Errorf("failed to apply change", e)
        /\ result = "ApplyResult"

\* C3: Apply stops at the first failure: when a statement fails, Failed has exactly one
\* entry, for that change, Applied holds exactly the changes that preceded it in the
\* ChangeSet, no later change is executed, none is executed twice, and the error is
\* returned.
C3_ApplyStopsAtFirstFailure ==
    (mode = "Apply" /\ pc = "returned" /\ Failed # << >>) => StoppedAtFirstFailure

\* C3 for a ChangeSet every change of which renders as a statement.
C3_StopsWhenEveryChangeRenders ==
    (mode = "Apply" /\ pc = "returned" /\ Failed # << >> /\ EveryChangeRenders)
        => StoppedAtFirstFailure

\* What C4 says of an ApplyWithContinue that returned: every change's statement was
\* executed once, in ChangeSet order, and each position of the ChangeSet is either in
\* Applied or in Failed, both in ChangeSet order.
AttemptedAndPartitioned ==
    /\ execLog = [k \in DOMAIN cs |-> GenerateChange(cs[k])]
    /\ \E S \in SUBSET DOMAIN cs :
          /\ Applied = Pick(cs, S)
          /\ [k \in DOMAIN Failed |-> Failed[k].Change] = Pick(cs, DOMAIN cs \ S)
          /\ database = Pick(execLog, S)
    /\ \A k \in DOMAIN Failed :
          Failed[k].SQL = GenerateChange(Failed[k].Change) /\ Failed[k].Error \in AnyError
    /\ result = "ApplyResult"

\* C4: ApplyWithContinue attempts every change exactly once, in order, never stops early,
\* and partitions the ChangeSet into Applied and Failed.
C4_ContinueAttemptsEveryChange ==
    (mode = "ApplyWithContinue" /\ pc = "returned") => AttemptedAndPartitioned

\* C4 for a ChangeSet every change of which renders as a statement.
C4_AttemptsWhenEveryChangeRenders ==
    (mode = "ApplyWithContinue" /\ pc = "returned" /\ EveryChangeRenders)
        => AttemptedAndPartitioned

\* The example of C4: of three changes the second fails and the others are applied.
C4_SecondOfThreeFails ==
    /\ mode = "ApplyWithContinue"
    /\ pc = "returned"
    /\ Len(cs) = 3
    /\ EveryChangeRenders
    /\ Applied = <<cs[1], cs[3]>>
    /\ Len(Failed) = 1
    /\ Failed[1].Change = cs[2]

\* ApplyWithContinue never stops early: until it has returned, a step of it is enabled.
C4_ContinueNeverStuck ==
    (mode = "ApplyWithContinue" /\ pc # "returned") => ENABLED (ContinueIterate \/ ContinueReturn)

-----------------------------------------------------------------------------
(* Validator (apply.go) and the destructive classification (changeset.go)  *)

\* isNumericType
isNumericType(t) ==
    t \in {"integer", "int", "bigint", "smallint", "decimal", "numeric", "real", "double"}

\* isStringType
isStringType(t) ==
    t = "text" \/ t = "varchar" \/ t = "character varying" \/ t = "char" \/ t = "character"

\* What one iteration of ValidateChanges' loop appends for change c.
ValidateChange(c) ==
    CASE c.kind = "AlterColumnChange" ->
            LET alt     == c.Alteration
                oldType == alt.OldType
                newType == alt.NewType
                w1 == IF alt.TypeChanged /\ isNumericType(oldType) /\ isStringType(newType)
                      THEN <<"Changing " \o ObjectName(c) \o " from " \o oldType \o " to "
                               \o newType \o " may lose precision">>
                      ELSE << >>
                e1 == IF alt.TypeChanged /\ isStringType(oldType) /\ isNumericType(newType)
                      THEN <<"Changing " \o ObjectName(c) \o " from " \o oldType \o " to "
                               \o newType \o " may fail if data cannot be converted">>
                      ELSE << >>
                w2 == IF alt.NullableChanged /\ ~alt.NewNullable
                      THEN <<"Setting " \o ObjectName(c)
                               \o " to NOT NULL may fail if column contains NULL values">>
                      ELSE << >>
            IN  [warnings |-> w1 \o w2, errors |-> e1]
      [] c.kind = "DropColumnChange" ->
            [warnings |-> <<"Dropping column " \o ObjectName(c)
                              \o " will permanently delete all data in that column">>,
             errors |-> << >>]
      [] c.kind = "DropTableChange" ->
            [warnings |-> <<"Dropping table " \o ObjectName(c)
                              \o " will permanently delete all data in that table">>,
             errors |-> << >>]
      [] OTHER -> [warnings |-> << >>, errors |-> << >>]

\* ValidateChanges: the loop over cs.Changes; nil slices are << >>
ValidateChanges(changes) ==
    LET F[k \in 0..Len(changes)] ==
            IF k = 0 THEN [warnings |-> << >>, errors |-> << >>]
            ELSE [warnings |-> F[k - 1].warnings \o ValidateChange(changes[k]).warnings,
                  errors   |-> F[k - 1].errors \o ValidateChange(changes[k]).errors]
    IN  F[Len(changes)]

\* warnings, errs := ValidateChanges(cs)
ValidateStep ==
    /\ pc = "ordered"
    /\ warnings' = ValidateChanges(cs).warnings
    /\ errs' = ValidateChanges(cs).errors
    /\ pc' = "validated"
    /\ UNCHANGED <<destructive, hasDestructive, destructiveCount>>
    /\ UNCHANGED <<diffVars, applyVars, mergeVars, brancherVars>>

\* The destructive marks of a listing of cs: HasDestructive, DestructiveCount, and
\* IsDestructive of each change.
ClassifyStep ==
    /\ pc = "validated"
    /\ destructive' = [k \in DOMAIN cs |-> IsDestructive(cs[k])]
    /\ hasDestructive' = HasDestructive(cs)
    /\ destructiveCount' = DestructiveCount(cs)
    /\ pc' = "classified"
    /\ UNCHANGED <<warnings, errs>>
    /\ UNCHANGED <<diffVars, applyVars, mergeVars, brancherVars>>

\* A column named a of each type the messages distinguish: two numeric and two
\* string types, one of each qualified by a precision or a length.
FacetOf(dataType, qualified) ==
    CHOOSE f \in TypeFacets :
        /\ f.DataType = dataType
        /\ ~f.IsArray
        /\ qualified <=> (f.CharMaxLength # Nil \/ (f.NumericScale # Nil /\ f.NumericScale[1] > 0))

AlterationOf(old, new) ==
    AlterColumnChange("t1", "a", old, new, computeColumnAlteration(old, new))

\* AlterColumnChanges as Diff builds them: every family of type change, with a bare
\* and with a qualified type, nullability tightened and loosened, and a default set.
SampleAlterations ==
    LET int      == FacetOf("integer", FALSE)
        numeric  == FacetOf("numeric", TRUE)
        varying  == FacetOf("character varying", FALSE)
        varchar  == FacetOf("character varying", TRUE)
    IN  { AlterationOf(NewColumn("a", int, FALSE, Nil), NewColumn("a", varying, FALSE, Nil)),
          AlterationOf(NewColumn("a", varying, FALSE, Nil), NewColumn("a", int, FALSE, Nil)),
          AlterationOf(NewColumn("a", varchar, FALSE, Nil), NewColumn("a", int, FALSE, Nil)),
          AlterationOf(NewColumn("a", numeric, FALSE, Nil), NewColumn("a", varying, FALSE, Nil)),
          AlterationOf(NewColumn("a", int, FALSE, Nil), NewColumn("a", numeric, FALSE, Nil)),
          AlterationOf(NewColumn("a", int, TRUE, Nil), NewColumn("a", int, FALSE, Nil)),
          AlterationOf(NewColumn("a", int, FALSE, Nil), NewColumn("a", int, TRUE, Nil)),
          AlterationOf(NewColumn("a", int, FALSE, Nil), NewColumn("a", int, FALSE, Ptr("0"))),
          AlterationOf(NewColumn("a", varying, TRUE, Nil), NewColumn("a", int, FALSE, Nil)),
          AlterationOf(NewColumn("a", int, TRUE, Nil), NewColumn("a", varying, FALSE, Nil)) }

\* One change of every variant, a DropConstraintChange of a CHECK and of a FOREIGN KEY
\* constraint, and the alterations.
ValidatedSamples ==
    SampleAlterations
    \cup {CreateTableChange(SampleTable), DropTableChange(SampleTable),
          AddColumnChange("t1", PlainColumn("b")), DropColumnChange("t1", PlainColumn("b"))}
    \cup {CreateIndexChange(x) : x \in {y \in SampleIndexes : ~y.IsUnique}}
    \cup {DropIndexChange(x) : x \in {y \in SampleIndexes : ~y.IsUnique}}
    \cup {AddConstraintChange("t1", c) : c \in {d \in SampleConstraints : d.Type = "CHECK"}}
    \cup {DropConstraintChange("t1", c) : c \in SampleConstraints}
    \cup {CreateEnumChange(NewEnum("e1", "public", <<"x">>)),
          DropEnumChange(NewEnum("e1", "public", <<"x">>)),
          AddEnumValueChange("e1", "y", "x")}
    \cup {CreateFunctionChange(FunctionG), DropFunctionChange(FunctionG)}
    \cup {LET q == CHOOSE r \in SampleFunctions \X SampleFunctions : r[1] # r[2]
          IN  ReplaceFunctionChange(q[1], q[2])}

InitValidate ==
    /\ from = EmptySchema
    /\ to = EmptySchema
    /\ cs \in SeqsUpTo(ValidatedSamples, MaxChanges)
    /\ csIn = cs
    /\ ordered = << >>
    /\ pc = "ordered"
    /\ ApplierIdle
    /\ ValidatorIdle
    /\ BrancherIdle
    /\ MergeIdle

NextValidate == ValidateStep \/ ClassifyStep

SpecValidate == InitValidate /\ [][NextValidate]_vars

-----------------------------------------------------------------------------
(* Properties of the classification and of the Validator                   *)

Classified == pc = "classified"

\* The classification table: the variants that are always destructive, the two that
\* depend on their content, and the rest, which never are.
TableSaysDestructive(c) ==
    CASE c.kind \in {"DropTableChange", "DropColumnChange", "DropEnumChange"} -> TRUE
      [] c.kind = "DropConstraintChange" -> c.Constraint.Type = "FOREIGN KEY"
      [] c.kind = "AlterColumnChange" ->
            \/ c.Alteration.TypeChanged
            \/ c.Alteration.NullableChanged /\ c.Alteration.NewNullable = FALSE
      [] c.kind \in {"CreateTableChange", "AddColumnChange", "CreateIndexChange",
                     "AddConstraintChange", "CreateEnumChange", "AddEnumValueChange",
                     "CreateFunctionChange", "DropIndexChange", "DropFunctionChange",
                     "ReplaceFunctionChange"} -> FALSE

\* C11: IsDestructive() follows the classification table for every change: once a
\* ChangeSet is classified, each change's mark is the table's answer, HasDestructive
\* says whether the table calls any change destructive, and DestructiveCount counts
\* those it does.
C11_DestructiveFollowsTable ==
    Classified =>
        /\ destructive = [k \in DOMAIN cs |-> TableSaysDestructive(cs[k])]
        /\ hasDestructive = (\E k \in DOMAIN cs : TableSaysDestructive(cs[k]))
        /\ destructiveCount = Cardinality({k \in DOMAIN cs : TableSaysDestructive(cs[k])})

\* A classified ChangeSet holding the drop of a CHECK constraint (not destructive), the
\* drop of a FOREIGN KEY constraint (destructive) and an alteration that only loosens
\* nullability (not destructive).
C11_Witness ==
    /\ Classified
    /\ Len(cs) = 3
    /\ cs[1].kind = "DropConstraintChange" /\ cs[1].Constraint.Type = "CHECK"
    /\ cs[2].kind = "DropConstraintChange" /\ cs[2].Constraint.Type = "FOREIGN KEY"
    /\ cs[3].kind = "AlterColumnChange" /\ cs[3].Alteration.NullableChanged
    /\ cs[3].Alteration.NewNullable
    /\ destructive = <<FALSE, TRUE, FALSE>>
    /\ destructiveCount = 1

-----------------------------------------------------------------------------
(* Properties of the order of execution                                    *)

\* The names of the tables that exist once the changes are executed on a database
\* holding the tables named in names.
RECURSIVE TablesAfter(_, _)
TablesAfter(names, changes) ==
    IF changes = << >> THEN names
    ELSE LET c == Head(changes)
         IN  TablesAfter(CASE c.kind = "CreateTableChange" -> names \cup {c.Table.Name}
                           [] c.kind = "DropTableChange"   -> names \ {c.Table.Name}
                           [] OTHER                        -> names,
                         Tail(changes))

\* The tables referenced by the foreign keys that the standalone statement of change c
\* adds.
StandaloneReferences(c) ==
    IF c.kind = "AddConstraintChange" /\ c.Constraint.Type = "FOREIGN KEY"
    THEN {c.Constraint.RefTable}
    ELSE { }

\* The tables referenced by the ADD CONSTRAINT statements inside the rendering of a
\* CreateTableChange: those of the table's FOREIGN KEY constraints.
InlineReferences(c) ==
    IF c.kind = "CreateTableChange"
    THEN {c.Table.Constraints[n].RefTable
          : n \in {m \in DOMAIN c.Table.Constraints
                   : c.Table.Constraints[m].Type = "FOREIGN KEY"}}
    ELSE { }

\* The tables that exist when the ADD CONSTRAINT statements of ordered[k] are executed.
TablesAt(k) ==
    TablesAfter(DOMAIN from.Tables, SubSeq(ordered, 1, k - 1))
        \cup (IF ordered[k].kind = "CreateTableChange" THEN {ordered[k].Table.Name} ELSE { })

\* C12: the sequence OrderChanges produces executes every statement that adds a foreign
\* key referencing table R after R exists, be the statement a standalone AddConstraint
\* or the ADD CONSTRAINT inside the rendering of a CreateTable.
C12_ForeignKeyAfterReferenced ==
    pc = "ordered" =>
        \A k \in DOMAIN ordered :
            (StandaloneReferences(ordered[k]) \cup InlineReferences(ordered[k])) \subseteq TablesAt(k)

\* C12 for the standalone AddConstraint statements alone.
C12_StandaloneAfterReferenced ==
    pc = "ordered" =>
        \A k \in DOMAIN ordered : StandaloneReferences(ordered[k]) \subseteq TablesAt(k)

\* A standalone foreign key whose referenced table the same ChangeSet creates.
C12_StandaloneCase ==
    /\ pc = "ordered"
    /\ \E k \in DOMAIN ordered :
          /\ StandaloneReferences(ordered[k]) # { }
          /\ ~(StandaloneReferences(ordered[k]) \subseteq DOMAIN from.Tables)

-----------------------------------------------------------------------------
(* Properties of the Applier: empty renders, empty input, cancellation,    *)
(* dry run                                                                 *)

Returned == pc = "returned"

\* C13: a change the generator renders as the empty string is never silently skipped:
\* Apply does not return success for a ChangeSet holding one, ApplyWithContinue has an
\* entry in Failed for each, and DryRun returns an error.
C13_EmptyRenderIsFailure ==
    /\ (Returned /\ mode = "Apply" /\ err = "") => EveryChangeRenders
    /\ (Returned /\ mode = "ApplyWithContinue") =>
          \A k \in DOMAIN cs :
              GenerateChange(cs[k]) = "" => \E j \in DOMAIN Failed : Failed[j].Change = cs[k]
    /\ (Returned /\ mode = "DryRun" /\ ~EveryChangeRenders) => err # ""

\* C13 for DryRun alone.
C13_DryRunFailsOnEmptyRender ==
    (Returned /\ mode = "DryRun" /\ ~EveryChangeRenders) => err # ""

\* C14: Apply on an empty ChangeSet makes no call on the connection and begins no
\* transaction, and returns an ApplyResult with empty Applied and empty Failed and a
\* nil error.
C14_EmptyApply ==
    (mode = "Apply" /\ cs = << >>) =>
        /\ calls = << >>
        /\ execLog = << >>
        /\ tx = "none"
        /\ database = << >>
        /\ pc # "loop"
        /\ Returned =>
              /\ result = "ApplyResult"
              /\ Applied = << >>
              /\ Failed = << >>
              /\ err = ""

\* Apply has returned from an empty ChangeSet.
C14_Witness ==
    /\ mode = "Apply"
    /\ cs = << >>
    /\ Returned
    /\ result = "ApplyResult"

\* The context was cancelled after Apply had begun its transaction.
CancelledInTransaction == mode = "Apply" /\ ctx = "cancelled" /\ tx # "none"

C16_DryRun ==
    mode = "DryRun" =>
        /\ calls = << >>
        /\ execLog = << >>
        /\ database = << >>
        /\ tx = "none"
        /\ Returned =>
              IF EveryChangeRenders
              THEN err = "" /\ statements = [k \in DOMAIN cs |-> GenerateChange(cs[k])]
              ELSE err # "" /\ statements = << >>

\* DryRun has returned an error for a ChangeSet whose third change does not render.
C16_Witness ==
    /\ mode = "DryRun"
    /\ Returned
    /\ Len(cs) = 3
    /\ GenerateChange(cs[1]) # ""
    /\ GenerateChange(cs[2]) # ""
    /\ GenerateChange(cs[3]) = ""
    /\ err = "cannot generate SQL for change: Alter column t1.a: "
    /\ statements = << >>

-----------------------------------------------------------------------------
(* Properties of the differ: determinism                                   *)

\* The statements the merge command's --dry-run prints for what Diff returned.
PrintedStatements(changes) == Generate(OrderChanges(changes), TRUE)

\* C18: Diff is deterministic: the ChangeSet it returned for (from, to) is the only one
\* it can return for them, and so is the statement sequence got from it by OrderChanges
\* and Generate, whatever the order in which the maps of the schemas are iterated.
C18_DiffDeterministic ==
    Diffed =>
        \A d \in Diff(from, to) :
            /\ d = cs
            /\ PrintedStatements(d) = PrintedStatements(cs)

\* Every run of Diff on (from, to) returns the same changes, up to their order.
C18_SameChangesUpToOrder ==
    Diffed =>
        \A d \in Diff(from, to) :
            /\ Len(d) = Len(cs)
            /\ \A c \in SeqRange(d) : Occurrences(d, {c}) = Occurrences(cs, {c})

\* C18 for the statement sequence alone.
C18_StatementsDeterministic ==
    Diffed => \A d \in Diff(from, to) : PrintedStatements(d) = PrintedStatements(cs)

-----------------------------------------------------------------------------
(* Properties of the validator                                             *)

Validated == pc \in {"validated", "classified"}

\* The family of a column's type is that of its data type, whatever length or
\* precision qualifies it.
StringFamily(col) == isStringType(col.DataType) /\ ~col.IsArray
NumericFamily(col) == isNumericType(col.DataType) /\ ~col.IsArray

TypeChanges(c) == c.kind = "AlterColumnChange" /\ c.Alteration.TypeChanged

StringToNumeric(c) ==
    TypeChanges(c) /\ StringFamily(c.OldColumn) /\ NumericFamily(c.NewColumn)

NumericToString(c) ==
    TypeChanges(c) /\ NumericFamily(c.OldColumn) /\ StringFamily(c.NewColumn)

TightensNullability(c) ==
    /\ c.kind = "AlterColumnChange"
    /\ c.OldColumn.IsNullable
    /\ ~c.NewColumn.IsNullable

\* Neither the old nor the new type of the alteration is qualified.
BareTypes(c) ==
    c.kind = "AlterColumnChange" =>
        /\ FullType(c.OldColumn) = c.OldColumn.DataType
        /\ FullType(c.NewColumn) = c.NewColumn.DataType

ConversionError(c) ==
    "Changing " \o c.TableName \o "." \o c.ColumnName \o " from " \o FullType(c.OldColumn)
        \o " to " \o FullType(c.NewColumn) \o " may fail if data cannot be converted"

\* The error due for each change of changes from the k-th on.
RECURSIVE ErrorsDueFrom(_, _)
ErrorsDueFrom(changes, k) ==
    IF k > Len(changes) THEN << >>
    ELSE (IF StringToNumeric(changes[k]) THEN <<ConversionError(changes[k])>> ELSE << >>)
         \o ErrorsDueFrom(changes, k + 1)

\* C19: ValidateChanges returns an error-level message for every AlterColumn whose type
\* changes from a string-family to a numeric-family type, qualified or not, and leaves
\* the ChangeSet as it was.
C19_StringToNumericIsError ==
    Validated =>
        /\ errs = ErrorsDueFrom(cs, 1)
        /\ cs = csIn

\* C19 for alterations between unqualified types.
C19_ErrorWhenTypesBare ==
    (Validated /\ \A k \in DOMAIN cs : BareTypes(cs[k])) =>
        /\ errs = ErrorsDueFrom(cs, 1)
        /\ cs = csIn

\* ValidateChanges has answered for character varying -> integer.
C19_BareCase ==
    /\ Validated
    /\ \A k \in DOMAIN cs : BareTypes(cs[k])
    /\ \E k \in DOMAIN cs : StringToNumeric(cs[k])
    /\ Len(errs) = 1

\* ValidateChanges never modifies the ChangeSet.
C19_ChangeSetUntouched == [][pc = "ordered" => cs' = cs]_vars

\* The kinds of warning due for change c, in the order ValidateChanges gives them.
WarningsDue(c) ==
    CASE c.kind = "DropColumnChange" -> <<"column">>
      [] c.kind = "DropTableChange"  -> <<"table">>
      [] c.kind = "AlterColumnChange" ->
            (IF NumericToString(c) THEN <<"precision">> ELSE << >>)
            \o (IF TightensNullability(c) THEN <<"not null">> ELSE << >>)
      [] OTHER -> << >>

RECURSIVE WarningsDueFrom(_, _)
WarningsDueFrom(changes, k) ==
    IF k > Len(changes) THEN << >>
    ELSE WarningsDue(changes[k]) \o WarningsDueFrom(changes, k + 1)

\* The kind of a warning message.
WarningKind(message) ==
    CASE HasSuffix(message, " will permanently delete all data in that column") -> "column"
      [] HasSuffix(message, " will permanently delete all data in that table")  -> "table"
      [] HasSuffix(message, " may lose precision") -> "precision"
      [] HasSuffix(message, " to NOT NULL may fail if column contains NULL values") -> "not null"
      [] OTHER -> "other"

\* C20: the warnings ValidateChanges returns are, in ChangeSet order, one for each
\* DropColumn, one for each DropTable, one for each AlterColumn tightening nullability and
\* one for each AlterColumn changing a numeric-family type to a string-family type, and
\* nothing else.
C20_WarningsExactlyAsDue ==
    Validated =>
        [j \in DOMAIN warnings |-> WarningKind(warnings[j])] = WarningsDueFrom(cs, 1)

\* C20 for ChangeSets whose alterations are between unqualified types.
C20_WarningsWhenTypesBare ==
    (Validated /\ \A k \in DOMAIN cs : BareTypes(cs[k])) =>
        [j \in DOMAIN warnings |-> WarningKind(warnings[j])] = WarningsDueFrom(cs, 1)

\* ValidateChanges has answered for a ChangeSet of unqualified alterations with three
\* warnings due, two of them for one change.
C20_BareCase ==
    /\ Validated
    /\ \A k \in DOMAIN cs : BareTypes(cs[k])
    /\ \E k \in DOMAIN cs : NumericToString(cs[k]) /\ TightensNullability(cs[k])
    /\ \E k \in DOMAIN cs : cs[k].kind = "DropTableChange"
    /\ Len(warnings) = 3

-----------------------------------------------------------------------------
(* The merge command                                                       *)

\* ChangeSet.Summary: the number of changes of each type present
Summary(changes) ==
    [t \in {ChangeType(changes[k]) : k \in DOMAIN changes} |->
        Cardinality({k \in DOMAIN changes : ChangeType(changes[k]) = t})]

\* What GenerateMigrationFile writes for the statements from the k-th on.
RECURSIVE WriteStatements(_, _)
WriteStatements(stmts, k) ==
    IF k > Len(stmts) THEN ""
    ELSE stmts[k] \o "\n" \o (IF ~HasPrefix(stmts[k], "--") THEN "\n" ELSE "")
             \o WriteStatements(stmts, k + 1)

\* SQLGenerator.GenerateMigrationFile at time now: one content per order in which the
\* summary map is walked.
GenerateMigrationFile(changes, description, now) ==
    LET header  == "-- Migration generated by pgbranch\n"
                       \o "-- Generated at: " \o now \o "\n"
                       \o (IF description # "" THEN "-- Description: " \o description \o "\n"
                           ELSE "")
                       \o "\n"
        summary == Summary(changes)
        counts  == IF DOMAIN summary = {} THEN {""}
                   ELSE { "-- Changes:\n" \o Join(lines, "") \o "\n"
                          : lines \in RangeLoop([t \in DOMAIN summary |->
                                {<<"--   " \o t \o ": " \o ToString(summary[t]) \o "\n">>}]) }
        warning == IF HasDestructive(changes)
                   THEN "-- WARNING: This migration contains "
                            \o ToString(DestructiveCount(changes))
                            \o " destructive change(s)\n\n"
                   ELSE ""
    IN  { header \o c \o warning \o "BEGIN;\n\n"
              \o WriteStatements(Generate(changes, TRUE), 1) \o "COMMIT;\n"
          : c \in counts }

Spaces == {" ", "\t", "\n", "\r"}

\* strings.TrimSpace
RECURSIVE TrimSpace(_)
TrimSpace(str) ==
    IF str = "" THEN ""
    ELSE IF CharAt(str, 1) \in Spaces THEN TrimSpace(SubSeq(str, 2, Len(str)))
    ELSE IF CharAt(str, Len(str)) \in Spaces THEN TrimSpace(SubSeq(str, 1, Len(str) - 1))
    ELSE str

\* strings.ToLower
RECURSIVE ToLower(_)
ToLower(str) ==
    IF str = "" THEN ""
    ELSE LET ch    == CharAt(str, 1)
             upper == "ABCDEFGHIJKLMNOPQRSTUVWXYZ"
             lower == "abcdefghijklmnopqrstuvwxyz"
             at1   == {k \in 1..26 : CharAt(upper, k) = ch}
         IN  (IF at1 = {} THEN ch ELSE CharAt(lower, CHOOSE k \in at1 : TRUE))
             \o ToLower(SubSeq(str, 2, Len(str)))

\* confirmPrompt taking every answer for a yes.
confirmPrompt_Always(line) == TRUE

\* confirmPrompt, given what standard input holds up to and including the next
\* newline; ReadString returns io.EOF when the input ends before a newline
confirmPrompt(line) ==
    IF ~HasSuffix(line, "\n") THEN FALSE
    ELSE LET response == ToLower(TrimSpace(line))
         IN  response = "y" \/ response = "yes"

\* What the user may have typed at a prompt.
Responses == {"y\n", "yes\n", "Y\n", " Yes \n", "n\n", "no\n", "\n", "y", ""}

sourceBranch == "feature"
targetBranch == "main"

\* time.Now().Format(time.RFC3339)
Timestamps == {"2024-05-01T12:00:00Z"}

\* The schemas of the two branches of a merge.
MergeFamilies == {MixedSchemas, EnumSchemas}

\* The merge command starts: from is the target branch's schema and to the source
\* branch's, as in schema.Diff(targetSchema, sourceSchema).
InitMerge ==
    /\ \E family \in MergeFamilies : from \in family /\ to \in family
    /\ cs = << >>
    /\ csIn = << >>
    /\ ordered = << >>
    /\ pc = "input"
    /\ ApplierIdle
    /\ ValidatorIdle
    /\ BrancherIdle
    /\ dryRun \in BOOLEAN
    /\ migrationFile \in BOOLEAN
    /\ force \in BOOLEAN
    /\ answer = "none"
    /\ file = ""

\* if changeSet.IsEmpty() { ...; return nil }
MergeEmpty ==
    /\ pc = "diffed"
    /\ IsEmpty(cs)
    /\ pc' = "exit"
    /\ UNCHANGED <<diffVars, applyVars, validateVars, mergeVars, brancherVars>>

\* changeSet = OrderChanges(changeSet); printDiffFull(changeSet);
\* warnings, errs := ValidateChanges(changeSet)
MergeReview ==
    /\ pc = "diffed"
    /\ ~IsEmpty(cs)
    /\ LET changeSet == OrderChanges(cs)
       IN  /\ cs' = changeSet
           /\ ordered' = changeSet
           /\ destructive' = [k \in DOMAIN changeSet |-> IsDestructive(changeSet[k])]
           /\ hasDestructive' = HasDestructive(changeSet)
           /\ destructiveCount' = DestructiveCount(changeSet)
           /\ warnings' = ValidateChanges(changeSet).warnings
           /\ errs' = ValidateChanges(changeSet).errors
    /\ pc' = "reviewed"
    /\ UNCHANGED <<from, to, csIn>>
    /\ UNCHANGED <<applyVars, mergeVars, brancherVars>>

\* if dryRun { printDiffSQL(changeSet); return nil }
MergeDryRun ==
    /\ pc = "reviewed"
    /\ dryRun
    /\ statements' = Generate(cs, TRUE)
    /\ pc' = "exit"
    /\ UNCHANGED <<mode, at, Applied, Failed, result, err, tx, pending, database, execLog,
                   ctx, calls>>
    /\ UNCHANGED <<diffVars, validateVars, mergeVars, brancherVars>>

\* if migrationFile { return writeMigrationFile(...) }
MergeMigrationFile ==
    /\ pc = "reviewed"
    /\ ~dryRun
    /\ migrationFile
    /\ \/ /\ \E e \in {"failed to create migrations directory: permission denied",
                       "failed to write migration file: no space left on device"} :
                err' = e
          /\ UNCHANGED file
       \/ /\ \E now \in Timestamps :
                file' \in GenerateMigrationFile(
                              cs, "Merge " \o sourceBranch \o " → " \o targetBranch, now)
          /\ UNCHANGED err
    /\ pc' = "exit"
    /\ UNCHANGED <<mode, at, Applied, Failed, result, tx, pending, database, execLog, ctx,
                   calls, statements>>
    /\ UNCHANGED <<diffVars, validateVars, dryRun, migrationFile, force, answer,
                   brancherVars>>

\* The confirmation step of the merge command.
MergeConfirm ==
    /\ pc = "reviewed"
    /\ ~dryRun
    /\ ~migrationFile
    /\ \/ /\ HasDestructive(cs) /\ ~force
          /\ \E line \in Responses :
                /\ answer' = line
                /\ pc' = IF ~confirmPrompt(line) THEN "exit" ELSE "confirmed"
       \/ /\ ~(HasDestructive(cs) /\ ~force)
          /\ ~force
          /\ \E line \in Responses :
                /\ answer' = line
                /\ pc' = IF ~confirmPrompt(line) THEN "exit" ELSE "confirmed"
       \/ /\ ~(HasDestructive(cs) /\ ~force)
          /\ force
          /\ pc' = "confirmed"
          /\ UNCHANGED answer
    /\ UNCHANGED <<diffVars, applyVars, validateVars, dryRun, migrationFile, force, file,
                   brancherVars>>

\* conn, err := pgx.Connect(ctx, targetConnURL), and the call of applier.Apply
MergeConnect ==
    /\ pc = "confirmed"
    /\ \/ /\ err' = "failed to connect to target: connection refused"
          /\ pc' = "exit"
          /\ UNCHANGED <<mode, at>>
       \/ /\ mode' = "Apply"
          /\ at' = 1
          /\ pc' = "call"
          /\ UNCHANGED err
    /\ UNCHANGED <<Applied, Failed, result, tx, pending, database, execLog, ctx, calls,
                   statements>>
    /\ UNCHANGED <<diffVars, validateVars, mergeVars, brancherVars>>

\* What the merge command does with what Apply returned: on an error it reads
\* result.Failed, which panics when result is nil.
MergeReport ==
    /\ pc = "returned"
    /\ mode = "Apply"
    /\ pc' = IF err # "" /\ result = "nil" THEN "panic" ELSE "exit"
    /\ UNCHANGED <<diffVars, applyVars, validateVars, mergeVars, brancherVars>>

NextMerge ==
    \/ DiffStep
    \/ MergeEmpty
    \/ MergeReview
    \/ MergeDryRun
    \/ MergeMigrationFile
    \/ MergeConfirm
    \/ MergeConnect
    \/ ApplyBegin
    \/ ApplyIterate
    \/ ApplyCommit
    \/ MergeReport

SpecMerge == InitMerge /\ [][NextMerge]_vars

-----------------------------------------------------------------------------
(* Properties of the merge command                                         *)

\* Nothing was executed on the target and no transaction was begun on it.
NothingApplied ==
    /\ execLog = << >>
    /\ database = << >>
    /\ tx = "none"

\* The lines a user types to answer yes.
Affirmative == {"y\n", "yes\n", "Y\n", " Yes \n"}

\* C17: in merge mode, when the ordered ChangeSet has a destructive change, nothing is
\* applied to the target unless the user answered yes at the confirmation step; with
\* --dry-run or --migration-file nothing is ever applied.
C17_DestructiveNeedsConfirmation ==
    /\ (HasDestructive(ordered) /\ ~NothingApplied) => answer \in Affirmative
    /\ (dryRun \/ migrationFile) => NothingApplied

\* C17 as the code has it: when the ordered ChangeSet has a destructive change, nothing
\* is applied to the target unless the user answered yes at the confirmation step or
\* --force was given; with --dry-run or --migration-file nothing is ever applied.
C17_DestructiveNeedsConfirmationOrForce ==
    /\ (HasDestructive(ordered) /\ ~NothingApplied) => (force \/ answer \in Affirmative)
    /\ (~force /\ ~NothingApplied) => answer \in Affirmative
    /\ (dryRun \/ migrationFile) => NothingApplied

\* A destructive ChangeSet was applied and committed after the user answered yes.
C17_Witness ==
    /\ HasDestructive(ordered)
    /\ ~force
    /\ answer \in Affirmative
    /\ tx = "committed"
    /\ database # << >>
    /\ pc = "exit"

\* The merge was cancelled at the prompt for a destructive ChangeSet.
C17_Cancelled ==
    /\ HasDestructive(ordered)
    /\ answer = "n\n"
    /\ pc = "exit"
    /\ NothingApplied

-----------------------------------------------------------------------------
(* Properties of the differ: functions                                     *)

\* The changes of cs that drop, create or replace the function of signature sig.
FunctionChangesFor(sig) ==
    SelectSeq(cs, LAMBDA c :
        \/ c.kind \in {"DropFunctionChange", "CreateFunctionChange"}
              /\ Signature(c.Function) = sig
        \/ c.kind = "ReplaceFunctionChange"
              /\ (Signature(c.OldFunction) = sig \/ Signature(c.NewFunction) = sig))

\* C21: for a function signature present in both schemas Diff emits nothing when
\* BodyHash and return type agree and exactly one ReplaceFunction otherwise, never a
\* DropFunction or a CreateFunction; a signature present in one schema only gets its one
\* DropFunction or CreateFunction whatever other overloads of the name there are.
C21_FunctionsReplacedInPlace ==
    Diffed =>
        \A sig \in DOMAIN from.Functions \cup DOMAIN to.Functions :
            FunctionChangesFor(sig) =
                IF sig \in DOMAIN from.Functions /\ sig \in DOMAIN to.Functions
                THEN IF /\ from.Functions[sig].BodyHash = to.Functions[sig].BodyHash
                        /\ from.Functions[sig].ReturnType = to.Functions[sig].ReturnType
                     THEN << >>
                     ELSE <<ReplaceFunctionChange(from.Functions[sig], to.Functions[sig])>>
                ELSE IF sig \in DOMAIN from.Functions
                     THEN <<DropFunctionChange(from.Functions[sig])>>
                     ELSE <<CreateFunctionChange(to.Functions[sig])>>

\* Diff has replaced f() whose body changed and dropped its overload f(n integer).
C21_Witness ==
    /\ Diffed
    /\ "f()" \in DOMAIN from.Functions /\ "f()" \in DOMAIN to.Functions
    /\ from.Functions["f()"].BodyHash # to.Functions["f()"].BodyHash
    /\ from.Functions["f()"].ReturnType = to.Functions["f()"].ReturnType
    /\ "f(n integer)" \in DOMAIN from.Functions
    /\ "f(n integer)" \notin DOMAIN to.Functions
    /\ Len(cs) = 2
    /\ \E k \in DOMAIN cs : cs[k].kind = "ReplaceFunctionChange"
    /\ \E k \in DOMAIN cs : cs[k].kind = "DropFunctionChange"

-----------------------------------------------------------------------------
(* Rendering a CreateTable                                                 *)

\* Tables as the extractor builds them: one or two columns, whose positions need not
\* follow their names, and any of a CHECK, a FOREIGN KEY and a PRIMARY KEY constraint.
RenderedTables ==
    { NewTable("t1", schema, cols, EmptyMap, cons)
      : schema \in {"public", "app"},
        cols \in { [n \in {"a"} |-> PlainColumn("a")],
                   [n \in {"a", "b"} |-> PlainColumn(n)],
                   [n \in {"a", "b"} |->
                       [PlainColumn(n) EXCEPT !.Position = 3 - ColumnPosition[n]]],
                   [n \in {"a", "b"} |->
                       IF n = "a" THEN NewColumn("a", VarcharFacet, TRUE, Ptr("'x'"))
                       ELSE PlainColumn("b")] },
        cons \in PartialMaps(
            [n \in {"c1", "k1", "t1_pkey"} |->
                IF n = "c1"
                THEN {NewConstraint("c1", "CHECK", "t1", <<"a">>, "CHECK ((a > 0))", "")}
                ELSE IF n = "k1"
                THEN {NewConstraint("k1", "FOREIGN KEY", "t1", <<"a">>,
                                    "FOREIGN KEY (a) REFERENCES t2(a)", "t2")}
                ELSE {NewConstraint("t1_pkey", "PRIMARY KEY", "t1", <<"a">>,
                                    "PRIMARY KEY (a)", "")}]) }

\* The generator is asked to render the creation of one table.
InitRender ==
    /\ from = EmptySchema
    /\ to = EmptySchema
    /\ cs \in {<<CreateTableChange(t)>> : t \in RenderedTables}
    /\ csIn = cs
    /\ ordered = << >>
    /\ pc = "call"
    /\ mode = "DryRun"
    /\ at = 1
    /\ Applied = << >>
    /\ Failed = << >>
    /\ result = "none"
    /\ err = ""
    /\ tx = "none"
    /\ pending = << >>
    /\ database = << >>
    /\ execLog = << >>
    /\ ctx = "live"
    /\ calls = << >>
    /\ statements = << >>
    /\ ValidatorIdle
    /\ BrancherIdle
    /\ MergeIdle

NextRender == DryRunCall

SpecRender == InitRender /\ [][NextRender]_vars

-----------------------------------------------------------------------------
(* Properties of the rendering of a CreateTable                            *)

\* The first place of sub in str; 0 when str does not contain it.
IndexOf(str, sub) ==
    LET places == {i \in 1..(Len(str) - Len(sub) + 1) : SubSeq(str, i, i + Len(sub) - 1) = sub}
    IN  IF places = {} THEN 0 ELSE CHOOSE i \in places : \A j \in places : i <= j

\* The number of places of sub in str.
CountOf(str, sub) ==
    Cardinality({i \in 1..(Len(str) - Len(sub) + 1) : SubSeq(str, i, i + Len(sub) - 1) = sub})

Rendered ==
    /\ mode = "DryRun"
    /\ Returned
    /\ Len(cs) = 1
    /\ cs[1].kind = "CreateTableChange"
    /\ Len(statements) = 1

\* The statement that adds constraint con to table t.
AddConstraintStatement(t, con) ==
    "ALTER TABLE " \o quoteIdent(TableFullName(t)) \o " ADD CONSTRAINT "
        \o quoteIdent(con.Name) \o " " \o con.Definition \o ";"

\* The rendering stmt of the creation of t: a CREATE TABLE body with the columns of t in
\* ascending Position, then one ADD CONSTRAINT statement for each constraint of t among
\* those named in names, in the order of their names, and no other.
CreateTableWith(stmt, t, names) ==
    /\ HasPrefix(stmt, "CREATE TABLE " \o quoteIdent(TableFullName(t)) \o " (\n")
    /\ \A x \in DOMAIN t.Columns :
          /\ IndexOf(stmt, "    " \o quoteIdent(x) \o " ") > 0
          /\ IndexOf(stmt, "    " \o quoteIdent(x) \o " ") < IndexOf(stmt, ");")
    /\ \A x, y \in DOMAIN t.Columns :
          t.Columns[x].Position < t.Columns[y].Position =>
              IndexOf(stmt, "    " \o quoteIdent(x) \o " ")
                  < IndexOf(stmt, "    " \o quoteIdent(y) \o " ")
    /\ \A n \in names :
          /\ CountOf(stmt, AddConstraintStatement(t, t.Constraints[n])) = 1
          /\ IndexOf(stmt, AddConstraintStatement(t, t.Constraints[n])) > IndexOf(stmt, ");")
    /\ \A m, n \in names :
          StringLess(m, n) =>
              IndexOf(stmt, AddConstraintStatement(t, t.Constraints[m]))
                  < IndexOf(stmt, AddConstraintStatement(t, t.Constraints[n]))
    /\ CountOf(stmt, " ADD CONSTRAINT ") = Cardinality(names)

\* C22: the rendering of a CreateTable is the CREATE TABLE body with the columns in
\* ascending Position order followed by one ALTER TABLE ... ADD CONSTRAINT statement for
\* every constraint of the table, its primary key included, in constraint-name order.
C22_CreateTableExpressesEveryConstraint ==
    Rendered => CreateTableWith(statements[1], cs[1].Table, DOMAIN cs[1].Table.Constraints)

\* C22 without the primary key: one ADD CONSTRAINT statement for every constraint that
\* is not the primary key.
C22_ExpressesEveryOtherConstraint ==
    Rendered =>
        CreateTableWith(statements[1], cs[1].Table,
                        {n \in DOMAIN cs[1].Table.Constraints :
                            cs[1].Table.Constraints[n].Type # "PRIMARY KEY"})

\* A table with two columns whose positions run against their names and with a CHECK
\* and a FOREIGN KEY constraint was rendered.
C22_TwoConstraintsCase ==
    /\ Rendered
    /\ DOMAIN cs[1].Table.Constraints = {"c1", "k1"}
    /\ DOMAIN cs[1].Table.Columns = {"a", "b"}
    /\ cs[1].Table.Columns["b"].Position < cs[1].Table.Columns["a"].Position
    /\ CountOf(statements[1], " ADD CONSTRAINT ") = 2

-----------------------------------------------------------------------------
(* Properties of the differ: indexes and constraints of a table in both    *)
(* schemas                                                                 *)

TablesInBoth == DOMAIN from.Tables \cap DOMAIN to.Tables

\* The changes of changes that drop or create the index named n of the table of old.
IndexChangesFor(changes, old, n) ==
    SelectSeq(changes, LAMBDA c :
        /\ c.kind \in {"DropIndexChange", "CreateIndexChange"}
        /\ c.Index.Name = n
        /\ c.Index.TableName = old.TableName)

\* The changes of changes that drop or add the constraint named n of table toT.
ConstraintChangesFor(changes, toT, n) ==
    SelectSeq(changes, LAMBDA c :
        /\ c.kind \in {"DropConstraintChange", "AddConstraintChange"}
        /\ c.Constraint.Name = n
        /\ c.TableName = TableFullName(toT))

\* In changes, a is immediately followed by b.
Adjacent(changes, a, b) ==
    \E k \in 1..(Len(changes) - 1) : changes[k] = a /\ changes[k + 1] = b

IndexAttributesAgree(old, new) ==
    /\ old.IsUnique = new.IsUnique
    /\ old.IsPrimary = new.IsPrimary
    /\ old.Type = new.Type
    /\ old.Columns = new.Columns

ConstraintAttributesAgree(old, new) ==
    /\ old.Type = new.Type
    /\ old.Definition = new.Definition

\* For the index named n in both versions of table t, cs holds nothing when the
\* attributes agree and otherwise its drop immediately followed by its creation.
IndexDropThenCreate(t, n) ==
    LET old == from.Tables[t].Indexes[n]
        new == to.Tables[t].Indexes[n]
    IN  IF IndexAttributesAgree(old, new)
        THEN IndexChangesFor(cs, old, n) = << >>
        ELSE /\ IndexChangesFor(cs, old, n) = <<DropIndexChange(old), CreateIndexChange(new)>>
             /\ Adjacent(cs, DropIndexChange(old), CreateIndexChange(new))

ConstraintDropThenAdd(t, n) ==
    LET toT == to.Tables[t]
        old == from.Tables[t].Constraints[n]
        new == toT.Constraints[n]
        drop == DropConstraintChange(TableFullName(toT), old)
        add  == AddConstraintChange(TableFullName(toT), new)
    IN  IF ConstraintAttributesAgree(old, new)
        THEN ConstraintChangesFor(cs, toT, n) = << >>
        ELSE /\ ConstraintChangesFor(cs, toT, n) = <<drop, add>>
             /\ Adjacent(cs, drop, add)

\* C25: for every index name and every constraint name present in both versions of a
\* table, Diff emits nothing when the compared attributes agree and otherwise exactly
\* one drop of the old object immediately followed by exactly one creation of the new.
C25_DropThenCreate ==
    Diffed =>
        \A t \in TablesInBoth :
            /\ \A n \in DOMAIN from.Tables[t].Indexes \cap DOMAIN to.Tables[t].Indexes :
                  IndexDropThenCreate(t, n)
            /\ \A n \in DOMAIN from.Tables[t].Constraints \cap DOMAIN to.Tables[t].Constraints :
                  ConstraintDropThenAdd(t, n)

\* C25 for the constraints, and for the indexes whose new version is not primary.
C25_DropThenCreateUnlessPrimary ==
    Diffed =>
        \A t \in TablesInBoth :
            /\ \A n \in DOMAIN from.Tables[t].Indexes \cap DOMAIN to.Tables[t].Indexes :
                  ~to.Tables[t].Indexes[n].IsPrimary => IndexDropThenCreate(t, n)
            /\ \A n \in DOMAIN from.Tables[t].Constraints \cap DOMAIN to.Tables[t].Constraints :
                  ConstraintDropThenAdd(t, n)

\* Diff has answered for a table whose index i1 and whose constraint k1 both changed.
C25_BothChangedCase ==
    /\ Diffed
    /\ \E t \in TablesInBoth :
          /\ "i1" \in DOMAIN from.Tables[t].Indexes \cap DOMAIN to.Tables[t].Indexes
          /\ ~from.Tables[t].Indexes["i1"].IsPrimary
          /\ ~to.Tables[t].Indexes["i1"].IsPrimary
          /\ ~IndexAttributesAgree(from.Tables[t].Indexes["i1"], to.Tables[t].Indexes["i1"])
          /\ "k1" \in DOMAIN from.Tables[t].Constraints \cap DOMAIN to.Tables[t].Constraints
          /\ ~ConstraintAttributesAgree(from.Tables[t].Constraints["k1"],
                                        to.Tables[t].Constraints["k1"])
    /\ Len(cs) = 4

\* The changes of cs that drop or create an index.
IndexChanges == SelectSeq(cs, LAMBDA c : c.kind \in {"DropIndexChange", "CreateIndexChange"})

\* C27: Diff never emits a CreateIndex or a DropIndex of an index whose IsPrimary is
\* true, also when an index of the same name is primary in one schema and not primary
\* in the other.
C27_NoPrimaryIndexChange ==
    Diffed => \A k \in DOMAIN IndexChanges : ~IndexChanges[k].Index.IsPrimary

\* Diff never emits a CreateIndex of a primary index, and a DropIndex of one only for a
\* name whose index is not primary in the target schema.
C27_NoPrimaryIndexCreated ==
    Diffed =>
        \A k \in DOMAIN IndexChanges :
            IndexChanges[k].Index.IsPrimary =>
                /\ IndexChanges[k].kind = "DropIndexChange"
                /\ \E t \in TablesInBoth :
                      /\ IndexChanges[k].Index.Name \in DOMAIN to.Tables[t].Indexes
                      /\ ~to.Tables[t].Indexes[IndexChanges[k].Index.Name].IsPrimary

\* Diff has answered for a table whose primary index i1 is no longer in the target.
C27_PrimaryRemovedCase ==
    /\ Diffed
    /\ \E t \in TablesInBoth :
          /\ "i1" \in DOMAIN from.Tables[t].Indexes
          /\ from.Tables[t].Indexes["i1"].IsPrimary
          /\ "i1" \notin DOMAIN to.Tables[t].Indexes
    /\ IndexChanges = << >>
    /\ cs # << >>

\* OrderChanges has returned.
Ordered == pc = "ordered"

\* The place of change c in changes; 0 when it is not there.
PlaceOf(changes, c) ==
    IF \E k \in DOMAIN changes : changes[k] = c
    THEN CHOOSE k \in DOMAIN changes : changes[k] = c /\ \A j \in 1..(k - 1) : changes[j] # c
    ELSE 0

\* C26: in OrderChanges(Diff(from, to)), for every index name and every constraint name
\* present in both versions of a table with differing attributes, the drop of the old
\* object precedes the creation of the new object of that name.
C26_DropPrecedesCreate ==
    Ordered =>
        \A t \in TablesInBoth :
            /\ \A n \in DOMAIN from.Tables[t].Indexes \cap DOMAIN to.Tables[t].Indexes :
                  LET drop   == DropIndexChange(from.Tables[t].Indexes[n])
                      create == CreateIndexChange(to.Tables[t].Indexes[n])
                  IN  (PlaceOf(ordered, drop) > 0 /\ PlaceOf(ordered, create) > 0) =>
                          PlaceOf(ordered, drop) < PlaceOf(ordered, create)
            /\ \A n \in DOMAIN from.Tables[t].Constraints \cap DOMAIN to.Tables[t].Constraints :
                  LET name == TableFullName(to.Tables[t])
                      drop == DropConstraintChange(name, from.Tables[t].Constraints[n])
                      add  == AddConstraintChange(name, to.Tables[t].Constraints[n])
                  IN  (PlaceOf(ordered, drop) > 0 /\ PlaceOf(ordered, add) > 0) =>
                          PlaceOf(ordered, drop) < PlaceOf(ordered, add)

\* OrderChanges puts the creation of a changed index or constraint before the drop of
\* the object it replaces.
C26_CreatePrecedesDrop ==
    Ordered =>
        \A t \in TablesInBoth :
            /\ \A n \in DOMAIN from.Tables[t].Indexes \cap DOMAIN to.Tables[t].Indexes :
                  LET drop   == DropIndexChange(from.Tables[t].Indexes[n])
                      create == CreateIndexChange(to.Tables[t].Indexes[n])
                  IN  (PlaceOf(ordered, drop) > 0 /\ PlaceOf(ordered, create) > 0) =>
                          PlaceOf(ordered, create) < PlaceOf(ordered, drop)
            /\ \A n \in DOMAIN from.Tables[t].Constraints \cap DOMAIN to.Tables[t].Constraints :
                  LET name == TableFullName(to.Tables[t])
                      drop == DropConstraintChange(name, from.Tables[t].Constraints[n])
                      add  == AddConstraintChange(name, to.Tables[t].Constraints[n])
                  IN  (PlaceOf(ordered, drop) > 0 /\ PlaceOf(ordered, add) > 0) =>
                          PlaceOf(ordered, add) < PlaceOf(ordered, drop)

\* OrderChanges has answered for a table whose index i1 and constraint k1 both changed.
C26_BothChangedCase ==
    /\ Ordered
    /\ Len(ordered) = 4
    /\ ordered[1].kind = "CreateIndexChange" /\ ordered[1].Index.Name = "i1"
    /\ ordered[2].kind = "AddConstraintChange" /\ ordered[2].Constraint.Name = "k1"
    /\ ordered[3].kind = "DropConstraintChange" /\ ordered[3].Constraint.Name = "k1"
    /\ ordered[4].kind = "DropIndexChange" /\ ordered[4].Index.Name = "i1"

-----------------------------------------------------------------------------
(* Properties of the Applier: the result on an error                       *)

\* C28: whenever Apply returns a non-nil error it also returns a non-nil ApplyResult.
C28_ResultOnEveryError ==
    (mode = "Apply" /\ Returned /\ err # "") => result = "ApplyResult"

\* Apply returns a non-nil ApplyResult with every error but that of Begin.
C28_ResultUnlessBeginFailed ==
    (mode = "Apply" /\ Returned /\ err # "") =>
        (result = "ApplyResult" <=> calls # <<"Begin">>)

\* Apply has returned the error of a failed commit, with its result.
C28_CommitFailedCase ==
    /\ mode = "Apply"
    /\ Returned
    /\ HasPrefix(err, "failed to commit transaction: ")
    /\ result = "ApplyResult"
    /\ Len(Applied) = 2

-----------------------------------------------------------------------------
(* Properties of the differ: executing the additions to an enum            *)

\* The labels of an enum after the statement rendered for AddEnumValueChange c has been
\* executed on an enum with the labels values: ADD VALUE ... AFTER puts the new label
\* immediately after its anchor, and ADD VALUE without a clause puts it at the end.
ExecuteAddEnumValue(values, c) ==
    IF c.After = "" THEN Append(values, c.Value)
    ELSE LET k == CHOOSE i \in DOMAIN values : values[i] = c.After
         IN  SubSeq(values, 1, k) \o <<c.Value>> \o SubSeq(values, k + 1, Len(values))

\* Executing adds from the k-th on: the labels reached, and whether every anchor was
\* there when its statement was executed.
RECURSIVE ExecuteAddsFrom(_, _, _)
ExecuteAddsFrom(values, adds, k) ==
    IF k > Len(adds) THEN [Values |-> values, anchored |-> TRUE]
    ELSE IF adds[k].After # "" /\ adds[k].After \notin SeqRange(values)
         THEN [Values |-> values, anchored |-> FALSE]
    ELSE ExecuteAddsFrom(ExecuteAddEnumValue(values, adds[k]), adds, k + 1)

\* The AddEnumValue changes of cs for enum e, in emitted order.
EnumAddsFor(e) ==
    SelectSeq(cs, LAMBDA c : c.kind = "AddEnumValueChange" /\ c.EnumName = e.Name)

\* te.Values is fe.Values with labels inserted.
LabelsInserted(fe, te) ==
    SelectSeq(te.Values, LAMBDA v : v \in SeqRange(fe.Values)) = fe.Values

ExecutedAddsYield(fe, te) ==
    ExecuteAddsFrom(fe.Values, EnumAddsFor(te), 1) = [Values |-> te.Values, anchored |-> TRUE]

\* C29: for an enum in both schemas whose to.Values is from.Values with labels inserted
\* at any positions, the front included, executing its AddEnumValue changes in emitted
\* order on from.Values yields exactly to.Values, each anchor being there when its
\* change is executed.
C29_ExecutingAddsYieldsTo ==
    Diffed =>
        \A en \in DOMAIN from.Enums \cap DOMAIN to.Enums :
            LabelsInserted(from.Enums[en], to.Enums[en]) =>
                ExecutedAddsYield(from.Enums[en], to.Enums[en])

\* C29 when no label is inserted in front of the first label of from.Values.
C29_YieldsToUnlessInsertedInFront ==
    Diffed =>
        \A en \in DOMAIN from.Enums \cap DOMAIN to.Enums :
            LET fe == from.Enums[en]
                te == to.Enums[en]
            IN  (/\ LabelsInserted(fe, te)
                 /\ (fe.Values = << >> \/ te.Values[1] = fe.Values[1])) =>
                    ExecutedAddsYield(fe, te)

\* Diff has answered for an enum with one label to which two labels were appended.
C29_AppendedCase ==
    /\ Diffed
    /\ \E en \in DOMAIN from.Enums \cap DOMAIN to.Enums :
          /\ Len(from.Enums[en].Values) = 1
          /\ Len(to.Enums[en].Values) = 3
          /\ to.Enums[en].Values[1] = from.Enums[en].Values[1]
          /\ Len(EnumAddsFor(to.Enums[en])) = 2
          /\ ExecutedAddsYield(from.Enums[en], to.Enums[en])

-----------------------------------------------------------------------------
(* The Brancher: branches kept as template databases                       *)

\* Config.Database, the working database.
WorkingDatabase == "db"

\* The branch names the commands are called with.
BranchNames == {"main", "f-1"}

\* What the data of a database can be.
DatabaseStates == {"s0", "s1"}

\* The external calls of one operation, counted from 1, that the environment makes fail:
\* none of them, or one of them.
MaxCalls == 5
FaultSets == {{}} \cup {{k} : k \in 1..MaxCalls}

\* storage.SnapshotDBName
SnapshotDBName(originalDB, branchName) ==
    originalDB \o "_pgbranch_"
        \o ReplaceAll(ReplaceAll(ReplaceAll(branchName, "-", "_"), "/", "_"), ".", "_")

\* storage.NewMetadata
NewMetadata == [CurrentBranch |-> "", Branches |-> EmptyMap]

\* Metadata.BranchExists and the ok of Metadata.GetBranch
BranchExists(m, name) == name \in DOMAIN m.Branches

\* Metadata.AddBranch. Of a Branch its Name and Snapshot are kept: CreatedAt,
\* LastCheckoutAt and Parent are read by the listings only, by no operation here.
AddBranch(m, name, parent, snapshotFile) ==
    [m EXCEPT !.Branches = MapPut(@, name, [Name |-> name, Snapshot |-> snapshotFile])]

\* Metadata.DeleteBranch, for a name that is there
MetadataDeleteBranch(m, name) ==
    [m EXCEPT !.Branches = [n \in DOMAIN @ \ {name} |-> @[n]]]

\* Metadata.UpdateLastCheckout, for a name that is there: it sets LastCheckoutAt only.
UpdateLastCheckout(m, name) == m

\* The state an operation works on: s.n counts the external calls made so far, and the
\* call after them fails for a reason of the environment when its number is in F.
Called(s) == [s EXCEPT !.n = @ + 1]
EnvironmentFails(s, F) == (s.n + 1) \in F

\* Client.CreateDatabaseFromTemplate: CREATE DATABASE newDB TEMPLATE templateDB
CreateDatabaseFromTemplate(s, F, templateDB, newDB) ==
    IF \/ EnvironmentFails(s, F)
       \/ templateDB \notin DOMAIN s.databases
       \/ newDB \in DOMAIN s.databases
    THEN [s |-> Called(s), err |-> "failed to create database from template"]
    ELSE [s |-> [Called(s) EXCEPT !.databases = MapPut(@, newDB, @[templateDB])],
          err |-> ""]

\* Client.DropDatabaseByName: DROP DATABASE IF EXISTS dbName
DropDatabaseByName(s, F, dbName) ==
    IF EnvironmentFails(s, F)
    THEN [s |-> Called(s), err |-> "failed to drop database"]
    ELSE [s |-> [Called(s) EXCEPT !.databases = [d \in DOMAIN @ \ {dbName} |-> @[d]]],
          err |-> ""]

\* Client.DropDatabase: dropdb --if-exists of the working database
DropDatabase(s, F) == DropDatabaseByName(s, F, WorkingDatabase)

\* Client.CreateSnapshot
CreateSnapshot(s, F, snapshotDBName) ==
    CreateDatabaseFromTemplate(s, F, WorkingDatabase, snapshotDBName)

\* Client.DeleteSnapshot
DeleteSnapshot(s, F, snapshotDBName) == DropDatabaseByName(s, F, snapshotDBName)

\* Client.RestoreFromSnapshot
RestoreFromSnapshot(s, F, snapshotDBName) ==
    LET dropped == DropDatabase(s, F)
    IN  IF dropped.err # "" THEN dropped
        ELSE CreateDatabaseFromTemplate(dropped.s, F, snapshotDBName, WorkingDatabase)

\* Metadata.Save
Save(s, F) ==
    IF EnvironmentFails(s, F)
    THEN [s |-> Called(s), err |-> "failed to write metadata file"]
    ELSE [s |-> [Called(s) EXCEPT !.metadataFile = s.Metadata], err |-> ""]

\* Brancher.CreateBranch
CreateBranch(s, F, name) ==
    IF BranchExists(s.Metadata, name)
    THEN [s |-> s, err |-> "branch '" \o name \o "' already exists"]
    ELSE LET snapshotDBName == SnapshotDBName(WorkingDatabase, name)
             created == CreateSnapshot(s, F, snapshotDBName)
             added == [created.s EXCEPT
                          !.Metadata = AddBranch(@, name, @.CurrentBranch, snapshotDBName)]
             saved == Save(added, F)
         IN  IF created.err # "" THEN [s |-> created.s, err |-> "failed to create snapshot"]
             ELSE IF saved.err # ""
                  THEN [s |-> DeleteSnapshot(saved.s, F, snapshotDBName).s,
                        err |-> "failed to save metadata"]
             ELSE [s |-> saved.s, err |-> ""]

\* Brancher.UpdateBranch
UpdateBranch(s, F, name) ==
    IF ~BranchExists(s.Metadata, name)
    THEN [s |-> s, err |-> "branch '" \o name \o "' does not exist"]
    ELSE LET snapshotDBName == s.Metadata.Branches[name].Snapshot
             deleted == DeleteSnapshot(s, F, snapshotDBName)
             created == CreateSnapshot(deleted.s, F, snapshotDBName)
         IN  IF deleted.err # "" THEN [s |-> deleted.s, err |-> "failed to delete old snapshot"]
             ELSE IF created.err # ""
                  THEN [s |-> created.s, err |-> "failed to create updated snapshot"]
             ELSE [s |-> created.s, err |-> ""]

\* Brancher.Checkout, from the restoring of the snapshot on
CheckoutRestore(s, F, name) ==
    LET restored == RestoreFromSnapshot(s, F, s.Metadata.Branches[name].Snapshot)
        current == [restored.s EXCEPT
                       !.Metadata = UpdateLastCheckout([@ EXCEPT !.CurrentBranch = name], name)]
        saved == Save(current, F)
    IN  IF restored.err # "" THEN [s |-> restored.s, err |-> "failed to restore branch"]
        ELSE IF saved.err # "" THEN [s |-> saved.s, err |-> "failed to update metadata"]
        ELSE [s |-> saved.s, err |-> ""]

\* Brancher.Checkout restoring the snapshot of the branch before it saves the working
\* database into the snapshot of the current branch.
Checkout_RestoreFirst(s, F, name) ==
    IF ~BranchExists(s.Metadata, name)
    THEN [s |-> s, err |-> "branch '" \o name \o "' does not exist"]
    ELSE LET restored == RestoreFromSnapshot(s, F, s.Metadata.Branches[name].Snapshot)
             updated == IF s.Metadata.CurrentBranch # "" /\ s.Metadata.CurrentBranch # name
                        THEN UpdateBranch(restored.s, F, s.Metadata.CurrentBranch)
                        ELSE [s |-> restored.s, err |-> ""]
             saved == Save([updated.s EXCEPT !.Metadata.CurrentBranch = name], F)
         IN  IF restored.err # "" THEN [s |-> restored.s, err |-> "failed to restore branch"]
             ELSE IF updated.err # ""
                  THEN [s |-> updated.s, err |-> "failed to save current branch"]
             ELSE IF saved.err # "" THEN [s |-> saved.s, err |-> "failed to update metadata"]
             ELSE [s |-> saved.s, err |-> ""]

\* Brancher.Checkout
Checkout(s, F, name) ==
    IF ~BranchExists(s.Metadata, name)
    THEN [s |-> s, err |-> "branch '" \o name \o "' does not exist"]
    ELSE IF s.Metadata.CurrentBranch # "" /\ s.Metadata.CurrentBranch # name
         THEN LET updated == UpdateBranch(s, F, s.Metadata.CurrentBranch)
              IN  IF updated.err # ""
                  THEN [s |-> updated.s,
                        err |-> "failed to save current branch '"
                                    \o s.Metadata.CurrentBranch \o "'"]
                  ELSE CheckoutRestore(updated.s, F, name)
    ELSE CheckoutRestore(s, F, name)

\* Brancher.DeleteBranch without its refusal to delete the current branch.
DeleteBranch_Unguarded(s, F, name, forced) ==
    IF ~BranchExists(s.Metadata, name)
    THEN [s |-> s, err |-> "branch '" \o name \o "' does not exist"]
    ELSE LET deleted == DeleteSnapshot(s, F, s.Metadata.Branches[name].Snapshot)
             removed == [deleted.s EXCEPT
                            !.Metadata =
                                LET m == MetadataDeleteBranch(@, name)
                                IN  IF m.CurrentBranch = name
                                    THEN [m EXCEPT !.CurrentBranch = ""]
                                    ELSE m]
             saved == Save(removed, F)
         IN  IF deleted.err # ""
             THEN [s |-> deleted.s, err |-> "failed to delete snapshot database"]
             ELSE IF saved.err # "" THEN [s |-> saved.s, err |-> "failed to save metadata"]
             ELSE [s |-> saved.s, err |-> ""]

\* Brancher.DeleteBranch
DeleteBranch(s, F, name, forced) ==
    IF name = s.Metadata.CurrentBranch /\ ~forced
    THEN [s |-> s, err |-> "cannot delete current branch '" \o name \o "'"]
    ELSE IF ~BranchExists(s.Metadata, name)
         THEN [s |-> s, err |-> "branch '" \o name \o "' does not exist"]
    ELSE LET deleted == DeleteSnapshot(s, F, s.Metadata.Branches[name].Snapshot)
             removed == [deleted.s EXCEPT
                            !.Metadata =
                                LET m == MetadataDeleteBranch(@, name)
                                IN  IF m.CurrentBranch = name
                                    THEN [m EXCEPT !.CurrentBranch = ""]
                                    ELSE m]
             saved == Save(removed, F)
         IN  IF deleted.err # ""
             THEN [s |-> deleted.s, err |-> "failed to delete snapshot database"]
             ELSE IF saved.err # "" THEN [s |-> saved.s, err |-> "failed to save metadata"]
             ELSE [s |-> saved.s, err |-> ""]

\* Brancher.PruneBranches, from the k-th name on; err is "" when errors is empty.
RECURSIVE PruneBranchesFrom(_, _, _, _)
PruneBranchesFrom(s, F, names, k) ==
    IF k > Len(names) THEN [s |-> s, err |-> ""]
    ELSE LET one == DeleteBranch(s, F, names[k], TRUE)
             rest == PruneBranchesFrom(one.s, F, names, k + 1)
         IN  IF one.err # ""
             THEN [s |-> rest.s, err |-> "failed to delete '" \o names[k] \o "'"]
             ELSE rest

PruneBranches(s, F, names) == PruneBranchesFrom(s, F, names, 1)

\* The names PruneBranches is called with.
PrunedNames == {<<n>> : n \in BranchNames}
                   \cup {names \in BranchNames \X BranchNames : names[1] # names[2]}

\* What the Brancher and the server hold when an operation starts.
Held == [Metadata |-> Metadata, metadataFile |-> metadataFile, databases |-> databases,
         n |-> 0]

\* No call was made on the Brancher yet.
NoCall == [call |-> "none", name |-> "", names |-> << >>, forced |-> FALSE, err |-> "",
           CurrentBranch |-> "", working |-> ""]

\* The call made, with what it returned, and the current branch and the data of the
\* working database ("" when there was no working database) when it was made.
Call(call, name, names, forced, e) ==
    [call |-> call, name |-> name, names |-> names, forced |-> forced, err |-> e,
     CurrentBranch |-> Metadata.CurrentBranch,
     working |-> IF WorkingDatabase \in DOMAIN databases
                 THEN databases[WorkingDatabase] ELSE ""]

\* What is kept of call c when the call after it is made: c itself when it was a
\* Checkout that returned nil, and no more than that it was another call when not.
Earlier(c) == IF c.call = "Checkout" /\ c.err = "" THEN c ELSE NoCall

\* Initialize has run on a server that has the working database.
InitBranch ==
    /\ from = EmptySchema
    /\ to = EmptySchema
    /\ cs = << >>
    /\ csIn = << >>
    /\ ordered = << >>
    /\ pc = "brancher"
    /\ ApplierIdle
    /\ ValidatorIdle
    /\ MergeIdle
    /\ Metadata = NewMetadata
    /\ metadataFile = NewMetadata
    /\ databases \in {[d \in {WorkingDatabase} |-> state] : state \in DatabaseStates}
    /\ op = NoCall
    /\ prev = NoCall

CreateBranchCall ==
    \E name \in BranchNames, F \in FaultSets :
        LET r == CreateBranch(Held, F, name)
        IN  /\ Metadata' = r.s.Metadata
            /\ metadataFile' = r.s.metadataFile
            /\ databases' = r.s.databases
            /\ op' = Call("CreateBranch", name, << >>, FALSE, r.err)
            /\ prev' = Earlier(op)
            /\ UNCHANGED <<diffVars, pc, applyVars, validateVars, mergeVars>>

CheckoutCall ==
    \E name \in BranchNames, F \in FaultSets :
        LET r == Checkout(Held, F, name)
        IN  /\ Metadata' = r.s.Metadata
            /\ metadataFile' = r.s.metadataFile
            /\ databases' = r.s.databases
            /\ op' = Call("Checkout", name, << >>, FALSE, r.err)
            /\ prev' = Earlier(op)
            /\ UNCHANGED <<diffVars, pc, applyVars, validateVars, mergeVars>>

UpdateBranchCall ==
    \E name \in BranchNames, F \in FaultSets :
        LET r == UpdateBranch(Held, F, name)
        IN  /\ Metadata' = r.s.Metadata
            /\ metadataFile' = r.s.metadataFile
            /\ databases' = r.s.databases
            /\ op' = Call("UpdateBranch", name, << >>, FALSE, r.err)
            /\ prev' = Earlier(op)
            /\ UNCHANGED <<diffVars, pc, applyVars, validateVars, mergeVars>>

DeleteBranchCall ==
    \E name \in BranchNames, forced \in BOOLEAN, F \in FaultSets :
        LET r == DeleteBranch(Held, F, name, forced)
        IN  /\ Metadata' = r.s.Metadata
            /\ metadataFile' = r.s.metadataFile
            /\ databases' = r.s.databases
            /\ op' = Call("DeleteBranch", name, << >>, forced, r.err)
            /\ prev' = Earlier(op)
            /\ UNCHANGED <<diffVars, pc, applyVars, validateVars, mergeVars>>

PruneBranchesCall ==
    \E names \in PrunedNames, F \in FaultSets :
        LET r == PruneBranches(Held, F, names)
        IN  /\ Metadata' = r.s.Metadata
            /\ metadataFile' = r.s.metadataFile
            /\ databases' = r.s.databases
            /\ op' = Call("PruneBranches", "", names, TRUE, r.err)
            /\ prev' = Earlier(op)
            /\ UNCHANGED <<diffVars, pc, applyVars, validateVars, mergeVars>>

\* NewBrancher: the next command is a new process, which reads metadata.json.
NewBrancherCall ==
    /\ Metadata' = metadataFile
    /\ op' = Call("NewBrancher", "", << >>, FALSE, "")
    /\ prev' = Earlier(op)
    /\ UNCHANGED <<metadataFile, databases>>
    /\ UNCHANGED <<diffVars, pc, applyVars, validateVars, mergeVars>>

\* The user's programs change the data of the working database.
WorkingDatabaseWritten ==
    /\ WorkingDatabase \in DOMAIN databases
    /\ \E state \in DatabaseStates \ {databases[WorkingDatabase]} :
          databases' = [databases EXCEPT ![WorkingDatabase] = state]
    /\ op' = Call("write", "", << >>, FALSE, "")
    /\ prev' = Earlier(op)
    /\ UNCHANGED <<Metadata, metadataFile>>
    /\ UNCHANGED <<diffVars, pc, applyVars, validateVars, mergeVars>>

NextBranch ==
    \/ CreateBranchCall
    \/ CheckoutCall
    \/ UpdateBranchCall
    \/ DeleteBranchCall
    \/ PruneBranchesCall
    \/ NewBrancherCall
    \/ WorkingDatabaseWritten

SpecBranch == InitBranch /\ [][NextBranch]_vars

-----------------------------------------------------------------------------
(* Properties of the Brancher                                              *)

\* The last call was a Checkout that returned nil.
CheckedOut == op.call = "Checkout" /\ op.err = ""

\* The last call was a Checkout of another branch than the one that was current.
SwitchedBranch == CheckedOut /\ op.CurrentBranch # "" /\ op.CurrentBranch # op.name

\* The last two calls were Checkouts that returned nil, from a branch to another and back.
ThereAndBack ==
    /\ SwitchedBranch
    /\ prev.call = "Checkout"
    /\ prev.CurrentBranch = op.name
    /\ prev.name = op.CurrentBranch

DeleteBranchStep == op'.call = "DeleteBranch"

BrancherUnchanged ==
    /\ Metadata' = Metadata
    /\ metadataFile' = metadataFile
    /\ databases' = databases

\* C24: DeleteBranch of the current branch without force returns an error and changes
\* neither the branches, nor CurrentBranch, nor a snapshot; with force, when it returns
\* nil, the branch and its snapshot are gone and CurrentBranch is empty; DeleteBranch of a
\* name that is no branch returns an error and changes nothing.
C24_DeleteBranch ==
    [][DeleteBranchStep =>
        /\ (op'.name = Metadata.CurrentBranch /\ ~op'.forced) =>
              (op'.err # "" /\ BrancherUnchanged)
        /\ (~BranchExists(Metadata, op'.name)) =>
              (op'.err # "" /\ BrancherUnchanged)
        /\ (/\ op'.name = Metadata.CurrentBranch
            /\ BranchExists(Metadata, op'.name)
            /\ op'.forced
            /\ op'.err = "") =>
              /\ ~BranchExists(Metadata', op'.name)
              /\ Metadata.Branches[op'.name].Snapshot \notin DOMAIN databases'
              /\ Metadata'.CurrentBranch = ""]_vars

\* The current branch was deleted with force: it is gone and no branch is current.
C24_ForcedCase ==
    /\ op.call = "DeleteBranch"
    /\ op.forced
    /\ op.err = ""
    /\ op.CurrentBranch = op.name
    /\ Metadata.CurrentBranch = ""
    /\ ~BranchExists(Metadata, op.name)

\* Every branch of m has its snapshot database, and the current branch of m is a branch.
Sound(m, dbs) ==
    /\ \A n \in DOMAIN m.Branches : m.Branches[n].Snapshot \in DOMAIN dbs
    /\ m.CurrentBranch = "" \/ m.CurrentBranch \in DOMAIN m.Branches

\* C30: after any calls, those that failed part-way included, every branch recorded in
\* Metadata.Branches has its snapshot database, and CurrentBranch is empty or a recorded
\* branch.
C30_BranchesHaveSnapshots == Sound(Metadata, databases)

\* C30 for CurrentBranch alone.
C30_CurrentBranchRecorded ==
    Metadata.CurrentBranch = "" \/ Metadata.CurrentBranch \in DOMAIN Metadata.Branches

\* C30 for the calls that return nil: they keep what C30 says, of the Metadata and of
\* metadata.json.
C30_KeptByCallsReturningNil ==
    [][(/\ Sound(Metadata, databases)
        /\ Sound(metadataFile, databases)
        /\ op'.err = ""
        /\ op'.call # "write") =>
            (Sound(Metadata', databases') /\ Sound(metadataFile', databases'))]_vars

\* A branch is recorded after a call on it failed part-way.
C30_FailedPartWayCase ==
    /\ op.call \in {"CreateBranch", "UpdateBranch"}
    /\ op.err # ""
    /\ BranchExists(Metadata, op.name)

====
